---- MODULE Spec2Model ----
(***************************************************************************)
(* Tenant isolation and plan entitlement of the multi-tenant backend:      *)
(*   - the plan policy tables and the three plan middlewares               *)
(*     (checkPlanAccess, checkPlanLimits, checkPlanFeature),               *)
(*   - tenantMiddleware and the interception hooks it installs with        *)
(*     prisma.$use on its module-level client,                             *)
(*   - the administrative PATCH /tenants/:id that changes a tenant.        *)
(* The specifications share the variables; each exercises a part of the    *)
(* application:                                                            *)
(*   SpecScope, SpecEntities  requests through tenantMiddleware and        *)
(*              queries through the hooks of its client;                   *)
(*   SpecPlan, SpecRepeat  requests through the plan middlewares, with the *)
(*              clock and the administrator acting in between;             *)
(*   SpecAuth, SpecPrincipal  requests through authenticateToken;          *)
(*   SpecChain, SpecOutcome, SpecHandler, SpecRace  requests through the   *)
(*              whole chain to the handlers of tenantRoutes;               *)
(*   SpecLogin, SpecRegister  POST /login and POST /register;              *)
(*   SpecAdmin  the administrative routes.                                 *)
(***************************************************************************)
EXTENDS Integers, Sequences, FiniteSets, TLC

(***************************************************************************)
(* Bounds of the model.                                                    *)
(***************************************************************************)
\* the clock runs from 1 to MaxTime
MaxTime == 2
\* longest array of records a createMany carries
MaxRecords == 1
\* most $use hooks the model lets the client accumulate
MaxHooks == 2

(***************************************************************************)
(* Domains.                                                                *)
(***************************************************************************)
Tenants == {"tA", "tB"}
Reqs == {"r1", "r2"}
Undef == "undefined"
\* Date | null: null is 0, a date is a positive clock value
NullDate == 0
ExpiryDates == {1}

PlanTypes == {"SIMPLE", "COMPOSITE", "MANAGERIAL"}
\* Object.entries() visits the keys of the three plan tables in this order
PlanKeys == <<"SIMPLE", "COMPOSITE", "MANAGERIAL">>

\* Array.prototype.includes
Includes(arr, x) == \E i \in 1..Len(arr) : arr[i] = x

(***************************************************************************)
(* The plan policy tables.                                                 *)
(***************************************************************************)
PLAN_LEVELS == [SIMPLE |-> 1, COMPOSITE |-> 2, MANAGERIAL |-> 3]

PLAN_MODULES ==
  [SIMPLE |-> <<"dashboard", "crm", "clients", "basic_reports">>,
   COMPOSITE |-> <<"dashboard", "crm", "clients", "projects", "tasks",
                   "basic_reports", "project_reports", "file_management">>,
   MANAGERIAL |-> <<"dashboard", "crm", "clients", "projects", "tasks",
                    "billing", "invoices", "cash_flow", "transactions",
                    "advanced_reports", "analytics", "file_management",
                    "audit_logs", "user_management">>]

\* faulty variant of PLAN_LIMITS: MANAGERIAL loses a flag COMPOSITE has
PLAN_LIMITS_ApiAccessDropped ==
  [SIMPLE |-> [maxUsers |-> 3, maxClients |-> 50, maxProjects |-> 0,
               maxStorage |-> 1024 * 100,
               features |-> [projects |-> FALSE, billing |-> FALSE,
                             advanced_reports |-> FALSE, api_access |-> FALSE]],
   COMPOSITE |-> [maxUsers |-> 10, maxClients |-> 200, maxProjects |-> 100,
                  maxStorage |-> 1024 * 500,
                  features |-> [projects |-> TRUE, billing |-> FALSE,
                                advanced_reports |-> FALSE, api_access |-> TRUE]],
   MANAGERIAL |-> [maxUsers |-> -1, maxClients |-> -1, maxProjects |-> -1,
                   maxStorage |-> 1024 * 1024 * 5,
                   features |-> [projects |-> TRUE, billing |-> TRUE,
                                 advanced_reports |-> TRUE, api_access |-> FALSE]]]

\* maxStorage is counted in KiB here (the source counts bytes): 5 GiB in bytes
\* is beyond the integers TLC computes with.  File sizes are whole KiB.
PLAN_LIMITS ==
  [SIMPLE |-> [maxUsers |-> 3, maxClients |-> 50, maxProjects |-> 0,
               maxStorage |-> 1024 * 100,
               features |-> [projects |-> FALSE, billing |-> FALSE,
                             advanced_reports |-> FALSE, api_access |-> FALSE]],
   COMPOSITE |-> [maxUsers |-> 10, maxClients |-> 200, maxProjects |-> 100,
                  maxStorage |-> 1024 * 500,
                  features |-> [projects |-> TRUE, billing |-> FALSE,
                                advanced_reports |-> FALSE, api_access |-> TRUE]],
   MANAGERIAL |-> [maxUsers |-> -1, maxClients |-> -1, maxProjects |-> -1,
                   maxStorage |-> 1024 * 1024 * 5,
                   features |-> [projects |-> TRUE, billing |-> TRUE,
                                 advanced_reports |-> TRUE, api_access |-> TRUE]]]

ResourceTypes == {"users", "clients", "projects", "storage"}
Features == {"projects", "billing", "advanced_reports", "api_access"}
\* every module name of PLAN_MODULES, and one that no plan lists
Modules ==
  UNION {{PLAN_MODULES[p][i] : i \in 1..Len(PLAN_MODULES[p])} : p \in PlanTypes}
    \cup {"payroll"}

\* the switch of checkPlanLimits: the ceiling of a resource in a plan's limits
maxAllowedOf(limits, resourceType) ==
  CASE resourceType = "users" -> limits.maxUsers
    [] resourceType = "clients" -> limits.maxClients
    [] resourceType = "projects" -> limits.maxProjects
    [] resourceType = "storage" -> limits.maxStorage

\* faulty variant of getSuggestedPlans: the membership test is inverted
getSuggestedPlans_Lacking(requiredModule) ==
  SelectSeq(PlanKeys, LAMBDA plan : ~Includes(PLAN_MODULES[plan], requiredModule))

getSuggestedPlans(requiredModule) ==
  SelectSeq(PlanKeys, LAMBDA plan : Includes(PLAN_MODULES[plan], requiredModule))

\* faulty variant of getSuggestedPlansForLimit: the current level is kept
getSuggestedPlansForLimit_Inclusive(resourceType, currentPlan) ==
  SelectSeq(PlanKeys, LAMBDA plan : PLAN_LEVELS[plan] >= PLAN_LEVELS[currentPlan])

getSuggestedPlansForLimit(resourceType, currentPlan) ==
  SelectSeq(PlanKeys, LAMBDA plan : PLAN_LEVELS[plan] > PLAN_LEVELS[currentPlan])

\* faulty variant of getSuggestedPlansForFeature: the flag test is inverted
getSuggestedPlansForFeature_Lacking(feature) ==
  SelectSeq(PlanKeys, LAMBDA plan : ~PLAN_LIMITS[plan].features[feature])

getSuggestedPlansForFeature(feature) ==
  SelectSeq(PlanKeys, LAMBDA plan : PLAN_LIMITS[plan].features[feature])


(***************************************************************************)
(* State.                                                                  *)
(***************************************************************************)
VARIABLES
  tenants,    \* the Tenant table: id -> planType, isActive, expiresAt
  counts,     \* per tenant: rows of User, Client, Project; KiB of File.size
  now,        \* new Date()
  pc,         \* where each request is in its chain
  user,       \* req.user of each request
  reqTenant,  \* req.tenant of each request
  res,        \* the response each request was answered with
  seen,       \* observation: the plan check a request ran last, and the
              \* tenant's stored state at that moment
  hooks,      \* the $use callbacks on tenant.ts's client, oldest first; each
              \* is the tenantId its closure captured
  lastQuery,  \* observation: the last query issued on that client
  users,      \* the User table: id -> tenantId, accountType, isActive
  req,        \* what each request presents: its token and its route
  writes,     \* the data mutations executed for each request, in order
  audit,      \* the audit write of each request: none, pending, written, failed
  admin       \* observation: the last request to the administrative routes

\* the variables of a request on its way through the whole application
chainVars == <<users, req, writes, audit>>

vars ==
  <<tenants, counts, now, pc, user, reqTenant, res, seen, hooks, lastQuery,
    chainVars, admin>>

NoUser == [tenantId |-> Undef]
NoReqTenant == [id |-> Undef]
NoResponse == [status |-> 0]
NoSeen == [check |-> "none"]
NoQuery == [principal |-> Undef]
NoRequest ==
  [token |-> [kind |-> "none"],
   route |-> [mount |-> Undef, method |-> Undef, path |-> Undef, data |-> Undef,
              access |-> Undef, limits |-> Undef, permission |-> <<>>]]
NoAdmin == [status |-> 0]
Users == {"u1"}
\* a row of the User table; NoUserRow where findUnique finds none
UserRow(tenantId, accountType, isActive) ==
  [present |-> TRUE, tenantId |-> tenantId, accountType |-> accountType,
   isActive |-> isActive]
NoUserRow == [present |-> FALSE]

\* no request is on its way through the whole application: the plan
\* middlewares and the scoping hooks are exercised on their own
NoChain ==
  /\ users = [u \in Users |-> UserRow("tA", "SIMPLE", TRUE)]
  /\ req = [r \in Reqs |-> NoRequest]
  /\ writes = [r \in Reqs |-> <<>>]
  /\ audit = [r \in Reqs |-> "none"]
  /\ admin = NoAdmin

\* tenant.expiresAt && new Date() > tenant.expiresAt
Expired(tenant, date) == tenant.expiresAt # NullDate /\ date > tenant.expiresAt

\* what a plan check finds stored about the tenant when it runs
Observe(check, arg, tenantId, verdict) ==
  [check |-> check, arg |-> arg, tenantId |-> tenantId, verdict |-> verdict,
   planType |-> tenants[tenantId].planType,
   isActive |-> tenants[tenantId].isActive,
   expiresAt |-> tenants[tenantId].expiresAt,
   at |-> now,
   expired |-> Expired(tenants[tenantId], now),
   counts |-> counts[tenantId]]

\* res.status(...).json(...) ends the request
Deny(r, body) ==
  /\ res' = [res EXCEPT ![r] = body]
  /\ pc' = [pc EXCEPT ![r] = "done"]

(***************************************************************************)
(* checkPlanAccess(requiredModule)                                         *)
(***************************************************************************)
\* faulty variant of PlanAccessDenied: the denial is stamped with the time
PlanAccessDenied_Timestamped(tenant, requiredModule) ==
  [status |-> 403, code |-> "PLAN_ACCESS_DENIED",
   currentPlan |-> tenant.planType,
   requiredModule |-> requiredModule,
   allowedModules |-> PLAN_MODULES[tenant.planType],
   suggestedPlans |-> getSuggestedPlans(requiredModule),
   timestamp |-> now]

PlanAccessDenied(tenant, requiredModule) ==
  [status |-> 403, code |-> "PLAN_ACCESS_DENIED",
   currentPlan |-> tenant.planType,
   requiredModule |-> requiredModule,
   allowedModules |-> PLAN_MODULES[tenant.planType],
   suggestedPlans |-> getSuggestedPlans(requiredModule)]

checkPlanAccess(r, requiredModule) ==
  /\ pc[r] = "access"
  /\ LET tenantId == user[r].tenantId IN
     IF tenantId = Undef
     THEN /\ Deny(r, [status |-> 401, code |-> "INVALID_TOKEN"])
          /\ UNCHANGED <<reqTenant, seen>>
     ELSE IF tenantId \notin DOMAIN tenants
     THEN /\ Deny(r, [status |-> 404, code |-> "TENANT_NOT_FOUND"])
          /\ UNCHANGED <<reqTenant, seen>>
     ELSE LET tenant == tenants[tenantId] IN
       IF ~tenant.isActive
       THEN /\ Deny(r, [status |-> 403, code |-> "TENANT_INACTIVE"])
            /\ seen' = [seen EXCEPT ![r] =
                          Observe("access", requiredModule, tenantId, "deny")]
            /\ UNCHANGED reqTenant
       ELSE IF Expired(tenant, now)
       THEN /\ Deny(r, [status |-> 403, code |-> "PLAN_EXPIRED",
                        expiresAt |-> tenant.expiresAt])
            /\ seen' = [seen EXCEPT ![r] =
                          Observe("access", requiredModule, tenantId, "deny")]
            /\ UNCHANGED reqTenant
       ELSE IF ~Includes(PLAN_MODULES[tenant.planType], requiredModule)
       THEN /\ Deny(r, PlanAccessDenied(tenant, requiredModule))
            /\ seen' = [seen EXCEPT ![r] =
                          Observe("access", requiredModule, tenantId, "deny")]
            /\ UNCHANGED reqTenant
       ELSE /\ reqTenant' = [reqTenant EXCEPT ![r] =
                               [id |-> tenantId, planType |-> tenant.planType,
                                isActive |-> tenant.isActive,
                                expiresAt |-> tenant.expiresAt]]
            /\ pc' = [pc EXCEPT ![r] = "entitled"]
            /\ seen' = [seen EXCEPT ![r] =
                          Observe("access", requiredModule, tenantId, "next")]
            /\ UNCHANGED res
  /\ UNCHANGED <<tenants, counts, now, user, hooks, lastQuery, chainVars, admin>>

(***************************************************************************)
(* checkPlanLimits(resourceType)                                           *)
(***************************************************************************)
\* prisma.<model>.count({ where: { tenantId } }), or the sum of File.size
currentCountOf(tenantId, resourceType) == counts[tenantId][resourceType]

\* faulty variant of LimitReached: a count equal to the ceiling passes
LimitReached_OffByOne(maxAllowed, currentCount) ==
  maxAllowed # -1 /\ currentCount > maxAllowed

\* -1 significa ilimitado
LimitReached(maxAllowed, currentCount) ==
  maxAllowed # -1 /\ currentCount >= maxAllowed

PlanLimitExceeded(tenant, resourceType, currentCount, maxAllowed) ==
  [status |-> 403, code |-> "PLAN_LIMIT_EXCEEDED",
   currentPlan |-> tenant.planType,
   resourceType |-> resourceType,
   currentCount |-> currentCount,
   maxAllowed |-> maxAllowed,
   suggestedPlans |-> getSuggestedPlansForLimit(resourceType, tenant.planType)]

checkPlanLimits(r, resourceType) ==
  /\ pc[r] = "entitled"
  /\ LET tenantId == user[r].tenantId
         tenant == reqTenant[r]
     IN
     IF tenant = NoReqTenant \/ tenantId = Undef
     THEN /\ Deny(r, [status |-> 401, code |-> "INVALID_AUTH"])
          /\ UNCHANGED seen
     ELSE LET limits == PLAN_LIMITS[tenant.planType]
              currentCount == currentCountOf(tenantId, resourceType)
              maxAllowed == maxAllowedOf(limits, resourceType)
          IN
          IF LimitReached(maxAllowed, currentCount)
          THEN /\ Deny(r, PlanLimitExceeded(tenant, resourceType,
                                            currentCount, maxAllowed))
               /\ seen' = [seen EXCEPT ![r] =
                             Observe("limits", resourceType, tenantId, "deny")]
          ELSE /\ pc' = [pc EXCEPT ![r] = "handler"]
               /\ seen' = [seen EXCEPT ![r] =
                             Observe("limits", resourceType, tenantId, "next")]
               /\ UNCHANGED res
  /\ UNCHANGED <<tenants, counts, now, user, reqTenant, hooks, lastQuery, chainVars, admin>>

(***************************************************************************)
(* checkPlanFeature(feature)                                               *)
(***************************************************************************)
FeatureNotAvailable(tenant, feature) ==
  [status |-> 403, code |-> "FEATURE_NOT_AVAILABLE",
   currentPlan |-> tenant.planType,
   feature |-> feature,
   suggestedPlans |-> getSuggestedPlansForFeature(feature)]

checkPlanFeature(r, feature) ==
  /\ pc[r] = "entitled"
  /\ LET tenant == reqTenant[r] IN
     IF tenant = NoReqTenant
     THEN /\ Deny(r, [status |-> 401, code |-> "INVALID_AUTH"])
          /\ UNCHANGED seen
     ELSE LET limits == PLAN_LIMITS[tenant.planType] IN
          IF ~limits.features[feature]
          THEN /\ Deny(r, FeatureNotAvailable(tenant, feature))
               /\ seen' = [seen EXCEPT ![r] =
                             Observe("feature", feature, tenant.id, "deny")]
          ELSE /\ pc' = [pc EXCEPT ![r] = "handler"]
               /\ seen' = [seen EXCEPT ![r] =
                             Observe("feature", feature, tenant.id, "next")]
               /\ UNCHANGED res
  /\ UNCHANGED <<tenants, counts, now, user, reqTenant, hooks, lastQuery, chainVars, admin>>


(***************************************************************************)
(* The world around a request: the clock, the administrator, the router.   *)
(***************************************************************************)
\* time passes
Tick ==
  /\ now < MaxTime
  /\ now' = now + 1
  /\ UNCHANGED <<tenants, counts, pc, user, reqTenant, res, seen, hooks, lastQuery,
               chainVars, admin>>

\* an optional field of a request body: <<>> when left out, <<v>> when given
Optional(S) == {<<>>} \cup {<<v>> : v \in S}

\* the body of PATCH /tenants/:id
PatchBodies ==
  [isActive : Optional(BOOLEAN),
   expiresAt : Optional(ExpiryDates),
   planType : Optional(PlanTypes)]

\* the handler of PATCH /tenants/:id of the admin routes
patchTenant(id, body) ==
  /\ id \in DOMAIN tenants
  /\ tenants' = [tenants EXCEPT ![id] =
       [isActive |-> IF body.isActive # <<>> THEN body.isActive[1] ELSE @.isActive,
        expiresAt |-> IF body.expiresAt # <<>> THEN body.expiresAt[1] ELSE @.expiresAt,
        planType |-> IF body.planType # <<>> THEN body.planType[1] ELSE @.planType]]
  /\ UNCHANGED <<counts, now, pc, user, reqTenant, res, seen, hooks, lastQuery,
               chainVars>>

\* a request of a principal of tenant tenantId reaches the plan middlewares of
\* its route: authenticateToken has attached req.user
EnterRoute(r, tenantId) ==
  /\ pc[r] # "access"
  /\ pc' = [pc EXCEPT ![r] = "access"]
  /\ user' = [user EXCEPT ![r] = [tenantId |-> tenantId]]
  /\ reqTenant' = [reqTenant EXCEPT ![r] = NoReqTenant]
  /\ res' = [res EXCEPT ![r] = NoResponse]
  /\ seen' = [seen EXCEPT ![r] = NoSeen]
  /\ UNCHANGED <<tenants, counts, now, hooks, lastQuery, chainVars, admin>>

(***************************************************************************)
(* SpecPlan: one request at a time through the plan middlewares.  The      *)
(* middlewares are composed per route; the model composes checkPlanAccess  *)
(* of any module with checkPlanLimits of any resource and checkPlanFeature *)
(* of any feature.                                                         *)
(***************************************************************************)
TenantStates ==
  [planType : PlanTypes, isActive : BOOLEAN, expiresAt : {NullDate} \cup ExpiryDates]

\* the ceiling of a resource in a plan, or a count above every finite ceiling
\* of the resource where the plan has none
CeilingOrAbove(plan, resourceType) ==
  LET m == maxAllowedOf(PLAN_LIMITS[plan], resourceType) IN
  IF m = -1 THEN maxAllowedOf(PLAN_LIMITS["COMPOSITE"], resourceType) + 1 ELSE m

\* stored usage around the ceilings of a plan: one tenant is one below each
\* ceiling, the other tenant at it
UsageAround(plan, below) ==
  [t \in Tenants |-> [rt \in ResourceTypes |->
     IF t = below /\ CeilingOrAbove(plan, rt) > 0
     THEN CeilingOrAbove(plan, rt) - 1
     ELSE CeilingOrAbove(plan, rt)]]

InitUsage == {UsageAround(plan, below) : plan \in PlanTypes, below \in Tenants}

PlanReqs == {"r1"}

\* the administrator patches tenant tA; tenant tB stays as it is stored
PatchTargets == {"tA"}
InitOther == [planType |-> "COMPOSITE", isActive |-> TRUE, expiresAt |-> NullDate]

InitPlan ==
  /\ tenants \in {tt \in [Tenants -> TenantStates] : tt["tB"] = InitOther}
  /\ counts \in InitUsage
  /\ now = 1
  /\ pc = [r \in Reqs |-> "idle"]
  /\ user = [r \in Reqs |-> NoUser]
  /\ reqTenant = [r \in Reqs |-> NoReqTenant]
  /\ res = [r \in Reqs |-> NoResponse]
  /\ seen = [r \in Reqs |-> NoSeen]
  /\ hooks = <<>>
  /\ lastQuery = NoQuery
  /\ NoChain

NextPlan ==
  \/ Tick
  \/ \E id \in PatchTargets, body \in PatchBodies :
       patchTenant(id, body) /\ UNCHANGED admin
  \/ \E r \in PlanReqs, t \in Tenants : EnterRoute(r, t)
  \/ \E r \in PlanReqs, m \in Modules : checkPlanAccess(r, m)
  \/ \E r \in PlanReqs, rt \in ResourceTypes : checkPlanLimits(r, rt)
  \/ \E r \in PlanReqs, f \in Features : checkPlanFeature(r, f)

SpecPlan == InitPlan /\ [][NextPlan]_vars


(***************************************************************************)
(* SpecRepeat: two requests of the same tenant through the plan            *)
(* middlewares, one after or beside the other, while time passes and       *)
(* nothing changes the tenant's stored state.                              *)
(***************************************************************************)
RepeatTenants == {"tA"}
RepeatModules == {"clients", "projects"}
RepeatResources == {"clients", "users"}
RepeatFeatures == {"billing", "projects"}

InitRepeat == InitPlan

NextRepeat ==
  \/ Tick
  \/ \E r \in Reqs, t \in RepeatTenants : EnterRoute(r, t)
  \/ \E r \in Reqs, m \in RepeatModules : checkPlanAccess(r, m)
  \/ \E r \in Reqs, rt \in RepeatResources : checkPlanLimits(r, rt)
  \/ \E r \in Reqs, f \in RepeatFeatures : checkPlanFeature(r, f)

SpecRepeat == InitRepeat /\ [][NextRepeat]_vars


(***************************************************************************)
(* Queries on a Prisma client.  A query is params = {model, action, args}; *)
(* args, args.where and args.data may each be missing.  Of a record only   *)
(* its id and tenantId are kept.  args.data is one record, or (createMany) *)
(* an array of records; an array is an object too, and can be given a      *)
(* tenantId property of its own beside its elements.                       *)
(***************************************************************************)
tenantModels ==
  <<"User", "Client", "Project", "Task", "Invoice", "Transaction", "AuditLog">>

WhereActions ==
  {"findUnique", "findFirst", "findMany", "update", "updateMany", "delete",
   "deleteMany"}
CreateActions == {"create", "createMany"}

NoWhere == [present |-> FALSE, id |-> Undef, tenantId |-> Undef]
NoData == [kind |-> "none", tenantId |-> Undef, rows |-> <<>>]
NoArgs == [present |-> FALSE, where |-> NoWhere, data |-> NoData]

Where(id, tenantId) == [present |-> TRUE, id |-> id, tenantId |-> tenantId]
OneRecord(tenantId) == [kind |-> "one", tenantId |-> tenantId, rows |-> <<>>]
ManyRecords(rows) == [kind |-> "many", tenantId |-> Undef, rows |-> rows]
Args(where, data) == [present |-> TRUE, where |-> where, data |-> data]

\* params.args.where['tenantId'] = tenantId
SetWhereTenant(params, tenantId) ==
  [params EXCEPT !.args = Args(Where(@.where.id, tenantId), @.data)]

\* params.args.data['tenantId'] = tenantId: on one record its tenantId field,
\* on an array a property of the array, not of its elements
SetDataTenant(params, tenantId) ==
  [params EXCEPT !.args.data.tenantId = tenantId]

Passed(params) == [threw |-> FALSE, params |-> params]
\* TypeError: a property of undefined is read or set
Threw(params) == [threw |-> TRUE, params |-> params]

\* the callback tenantMiddleware gives to prisma.$use, with the tenantId its
\* closure captured; it ends in next(params)
ScopingHook(tenantId, params) ==
  LET args == params.args IN
  IF ~Includes(tenantModels, params.model) THEN Passed(params)
  ELSE IF params.action \in {"findUnique", "findFirst"}
  THEN IF ~args.present \/ ~args.where.present
       THEN Threw(params)
       ELSE Passed(SetWhereTenant(params, tenantId))
  ELSE IF params.action = "findMany"
  THEN Passed(SetWhereTenant(params, tenantId))
  ELSE IF params.action \in CreateActions
  THEN IF ~args.present THEN Threw(params)
       ELSE IF args.data.kind = "none" THEN Passed(params)
       ELSE Passed(SetDataTenant(params, tenantId))
  ELSE IF params.action \in {"update", "updateMany", "delete", "deleteMany"}
  THEN IF ~args.present THEN Threw(params)
       ELSE Passed(SetWhereTenant(params, tenantId))
  ELSE Passed(params)

\* Prisma runs the $use callbacks of a client on every query of that client,
\* in the order they were added; the params the last one passes to next()
\* are the query that is executed
RECURSIVE RunHooks(_, _)
RunHooks(hs, params) ==
  IF hs = <<>> THEN Passed(params)
  ELSE LET r == ScopingHook(Head(hs), params) IN
       IF r.threw THEN r ELSE RunHooks(Tail(hs), r.params)


(***************************************************************************)
(* tenantMiddleware, mounted on /api after authenticateToken.              *)
(***************************************************************************)
\* errorHandler answers an AppError passed to next() with its status code
errorHandler(statusCode, message) ==
  [status |-> statusCode, body |-> [status |-> "error", message |-> message]]

Fail(r, statusCode, message) ==
  /\ res' = [res EXCEPT ![r] = errorHandler(statusCode, message)]
  /\ pc' = [pc EXCEPT ![r] = "done"]

\* each source file makes its own client with new PrismaClient(): the one of
\* middleware/tenant.ts, on which tenantMiddleware calls $use, and the one of
\* routes/tenant.routes.ts, on which the handlers issue their queries
TenantClient == "middleware/tenant.ts"
RoutesClient == "routes/tenant.routes.ts"

\* the $use callbacks of a client: $use adds a callback to the client it is
\* called on, and to no other
hooksOf(client) == IF client = TenantClient THEN hooks ELSE <<>>

\* what is observed of a query issued on tenant.ts's client for request r
Issued(r, params, result) ==
  [principal |-> user[r].tenantId, sent |-> params,
   threw |-> result.threw, reached |-> result.params,
   client |-> TenantClient, ran |-> hooks]

\* a query issued on a client for request r: the callbacks of that client
\* run on it
IssuedOn(client, r, params) ==
  [Issued(r, params, RunHooks(hooksOf(client), params))
     EXCEPT !.client = client, !.ran = hooksOf(client)]

tenantMiddleware(r) ==
  /\ pc[r] = "tenant"
  /\ Len(hooks) < MaxHooks
  /\ IF user[r].tenantId = Undef
     THEN /\ Fail(r, 401, "Tenant ID nao encontrado")
          /\ UNCHANGED <<hooks, lastQuery>>
     ELSE
       LET tenantId == user[r].tenantId
           find == [model |-> "Tenant", action |-> "findUnique",
                    args |-> Args(Where(tenantId, Undef), NoData)]
           found == RunHooks(hooks, find)
           id == found.params.args.where.id
       IN
       /\ lastQuery' = Issued(r, find, found)
       /\ IF found.threw
          THEN /\ Fail(r, 500, "Erro interno do servidor")
               /\ UNCHANGED hooks
          ELSE IF id \notin DOMAIN tenants
          THEN /\ Fail(r, 404, "Tenant nao encontrado")
               /\ UNCHANGED hooks
          ELSE IF ~tenants[id].isActive
          THEN /\ Fail(r, 403, "Tenant inativo")
               /\ UNCHANGED hooks
          ELSE IF tenants[id].expiresAt # NullDate /\ tenants[id].expiresAt < now
          THEN /\ Fail(r, 403, "Assinatura expirada")
               /\ UNCHANGED hooks
          ELSE /\ hooks' = Append(hooks, tenantId)
               /\ pc' = [pc EXCEPT ![r] = "handling"]
               /\ UNCHANGED res
  /\ UNCHANGED <<tenants, counts, now, user, reqTenant, seen, chainVars, admin>>

\* a request of a principal of tenant tenantId passes authenticateToken, which
\* attaches req.user and calls next()
EnterApi(r, tenantId) ==
  /\ pc[r] \in {"idle", "done"}
  /\ pc' = [pc EXCEPT ![r] = "tenant"]
  /\ user' = [user EXCEPT ![r] = [tenantId |-> tenantId]]
  /\ res' = [res EXCEPT ![r] = NoResponse]
  /\ UNCHANGED <<tenants, counts, now, reqTenant, seen, hooks, lastQuery, chainVars,
               admin>>

\* while a request is handled, a query is issued on tenant.ts's client
query(r, params) ==
  /\ pc[r] = "handling"
  /\ lastQuery' = IssuedOn(TenantClient, r, params)
  /\ UNCHANGED <<tenants, counts, now, pc, user, reqTenant, res, seen, hooks,
               chainVars, admin>>

\* the route handler answers the request
respond(r) ==
  /\ pc[r] = "handling"
  /\ res' = [res EXCEPT ![r] = [status |-> 200]]
  /\ pc' = [pc EXCEPT ![r] = "done"]
  /\ UNCHANGED <<tenants, counts, now, user, reqTenant, seen, hooks, lastQuery,
               chainVars, admin>>

(***************************************************************************)
(* SpecScope: concurrent requests of two tenants through tenantMiddleware, *)
(* and the queries issued on its client while they are handled.            *)
(***************************************************************************)
ScopeModels == {"Client", "Tenant"}
TenantIds == Tenants \cup {Undef}
Rows == [id : {Undef}, tenantId : TenantIds]

RECURSIVE SeqsUpTo(_, _)
SeqsUpTo(S, n) ==
  IF n = 0 THEN {<<>>}
  ELSE LET shorter == SeqsUpTo(S, n - 1) IN
       shorter \cup {Append(q, x) : q \in {p \in shorter : Len(p) = n - 1}, x \in S}

WhereArgs ==
  {NoArgs} \cup {Args(NoWhere, NoData)}
    \cup {Args(Where("row1", t), NoData) : t \in TenantIds}
\* create takes one record; createMany takes one record or an array of them
CreateArgs ==
  {NoArgs} \cup {Args(NoWhere, NoData)}
    \cup {Args(NoWhere, OneRecord(t)) : t \in TenantIds}
CreateManyArgs ==
  CreateArgs
    \cup {Args(NoWhere, ManyRecords(rows)) : rows \in SeqsUpTo(Rows, MaxRecords)}

ScopeQueries ==
  {[model |-> m, action |-> a, args |-> g] :
     m \in ScopeModels, a \in WhereActions \cup {"count"}, g \in WhereArgs}
  \cup
  {[model |-> m, action |-> "create", args |-> g] :
     m \in ScopeModels, g \in CreateArgs}
  \cup
  {[model |-> m, action |-> "createMany", args |-> g] :
     m \in ScopeModels, g \in CreateManyArgs}

\* tenant tA is in good standing; tenant tB is too, or is inactive, or has an
\* expiry date that passes when the clock reaches MaxTime
InitScopeTenants ==
  {[tA |-> [planType |-> "SIMPLE", isActive |-> TRUE, expiresAt |-> NullDate],
    tB |-> other] :
     other \in {[planType |-> "COMPOSITE", isActive |-> TRUE, expiresAt |-> NullDate],
                [planType |-> "COMPOSITE", isActive |-> FALSE, expiresAt |-> NullDate],
                [planType |-> "COMPOSITE", isActive |-> TRUE, expiresAt |-> MaxTime - 1]}}

InitScope ==
  /\ tenants \in InitScopeTenants
  /\ counts = UsageAround("SIMPLE", "tA")
  /\ now = MaxTime
  /\ pc = [r \in Reqs |-> "idle"]
  /\ user = [r \in Reqs |-> NoUser]
  /\ reqTenant = [r \in Reqs |-> NoReqTenant]
  /\ res = [r \in Reqs |-> NoResponse]
  /\ seen = [r \in Reqs |-> NoSeen]
  /\ hooks = <<>>
  /\ lastQuery = NoQuery
  /\ NoChain

NextScope ==
  \/ \E r \in Reqs, t \in Tenants : EnterApi(r, t)
  \/ \E r \in Reqs : tenantMiddleware(r)
  \/ \E r \in Reqs, params \in ScopeQueries : query(r, params)
  \/ \E r \in Reqs : respond(r)

SpecScope == InitScope /\ [][NextScope]_vars

(***************************************************************************)
(* SpecEntities: as SpecScope, with queries on every model of the schema   *)
(* that the sources name, each with a filter or a record that names no     *)
(* tenant.                                                                 *)
(***************************************************************************)
\* the models the sources issue queries on
EntityModels ==
  {"Tenant", "User", "Client", "Project", "Task", "Invoice", "Transaction",
   "File", "AuditLog"}

EntityQueries ==
  {[model |-> m, action |-> a, args |-> Args(Where("row1", Undef), NoData)] :
     m \in EntityModels, a \in {"findMany", "update", "delete"}}
  \cup
  {[model |-> m, action |-> "create", args |-> Args(NoWhere, OneRecord(Undef))] :
     m \in EntityModels}

NextEntities ==
  \/ \E r \in Reqs, t \in Tenants : EnterApi(r, t)
  \/ \E r \in Reqs : tenantMiddleware(r)
  \/ \E r \in Reqs, params \in EntityQueries : query(r, params)
  \/ \E r \in Reqs : respond(r)

SpecEntities == InitScope /\ [][NextEntities]_vars


(***************************************************************************)
(* authenticateToken, mounted on /api before tenantMiddleware.             *)
(***************************************************************************)
\* the authorization header: none, a string that is not a token signed with
\* JWT_SECRET, or a signed token with its payload's userId and exp
NoToken == [kind |-> "none"]
MalformedToken == [kind |-> "malformed"]
SignedToken(userId, exp) == [kind |-> "signed", userId |-> userId, exp |-> exp]
\* a signed token with the tenantId and accountType claims of its payload,
\* which jwt.sign took from the account when the token was issued
Claiming(token, tenantId, accountType) ==
  [kind |-> token.kind, userId |-> token.userId, exp |-> token.exp,
   tenantId |-> tenantId, accountType |-> accountType]

\* jwt.verify: what it throws, or ok; it takes a token for expired from the
\* second of its exp on
jwtVerify(token, date) ==
  IF token.kind = "malformed" THEN "JsonWebTokenError"
  ELSE IF date >= token.exp THEN "TokenExpiredError"
  ELSE "ok"

\* error instanceof jwt.JsonWebTokenError: TokenExpiredError extends it
IsJsonWebTokenError(error) == error \in {"JsonWebTokenError", "TokenExpiredError"}

\* faulty variant of AccountUsable: the isActive flag is not looked at
AccountUsable_FoundOnly(row) == row.present

\* the negation of (!user || !user.isActive)
AccountUsable(row) == row.present /\ row.isActive

\* what authenticateToken finds when it runs: the state of the token, and of
\* the account a signed token names
ObserveAuth(r, verdict) ==
  LET token == req[r].token IN
  [check |-> "auth", verdict |-> verdict, at |-> now,
   token |-> IF token.kind = "none" THEN "missing"
             ELSE IF token.kind = "malformed" THEN "malformed"
             ELSE IF now >= token.exp THEN "expired"
             ELSE "valid",
   account |-> IF token.kind # "signed" THEN Undef
               ELSE IF ~users[token.userId].present THEN "deleted"
               ELSE IF ~users[token.userId].isActive THEN "disabled"
               ELSE "active"]

\* faulty variant of authenticateToken: req.user is the decoded payload
authenticateToken_FromClaims(r) ==
  /\ pc[r] = "auth"
  /\ LET token == req[r].token IN
     IF token.kind = "none"
     THEN /\ Fail(r, 401, "Token de autenticacao nao fornecido")
          /\ seen' = [seen EXCEPT ![r] = ObserveAuth(r, "deny")]
          /\ UNCHANGED user
     ELSE LET decoded == jwtVerify(token, now) IN
       IF decoded # "ok"
       THEN /\ IF IsJsonWebTokenError(decoded)
               THEN Fail(r, 401, "Token invalido")
               ELSE Fail(r, 500, "Erro interno do servidor")
            /\ seen' = [seen EXCEPT ![r] = ObserveAuth(r, "deny")]
            /\ UNCHANGED user
       ELSE IF ~AccountUsable(users[token.userId])
       THEN /\ Fail(r, 401, "Usuario nao encontrado ou inativo")
            /\ seen' = [seen EXCEPT ![r] = ObserveAuth(r, "deny")]
            /\ UNCHANGED user
       ELSE /\ user' = [user EXCEPT ![r] =
                          [userId |-> token.userId,
                           tenantId |-> token.tenantId,
                           accountType |-> token.accountType]]
            /\ pc' = [pc EXCEPT ![r] = "tenant"]
            /\ seen' = [seen EXCEPT ![r] = ObserveAuth(r, "next")]
            /\ UNCHANGED res
  /\ UNCHANGED <<tenants, counts, now, reqTenant, hooks, lastQuery, chainVars, admin>>

authenticateToken(r) ==
  /\ pc[r] = "auth"
  /\ LET token == req[r].token IN
     IF token.kind = "none"
     THEN /\ Fail(r, 401, "Token de autenticacao nao fornecido")
          /\ seen' = [seen EXCEPT ![r] = ObserveAuth(r, "deny")]
          /\ UNCHANGED user
     ELSE LET decoded == jwtVerify(token, now) IN
       IF decoded # "ok"
       THEN /\ IF IsJsonWebTokenError(decoded)
               THEN Fail(r, 401, "Token invalido")
               ELSE Fail(r, 500, "Erro interno do servidor")
            /\ seen' = [seen EXCEPT ![r] = ObserveAuth(r, "deny")]
            /\ UNCHANGED user
       ELSE IF ~AccountUsable(users[token.userId])
       THEN /\ Fail(r, 401, "Usuario nao encontrado ou inativo")
            /\ seen' = [seen EXCEPT ![r] = ObserveAuth(r, "deny")]
            /\ UNCHANGED user
       ELSE /\ user' = [user EXCEPT ![r] =
                          [userId |-> token.userId,
                           tenantId |-> users[token.userId].tenantId,
                           accountType |-> users[token.userId].accountType]]
            /\ pc' = [pc EXCEPT ![r] = "tenant"]
            /\ seen' = [seen EXCEPT ![r] = ObserveAuth(r, "next")]
            /\ UNCHANGED res
  /\ UNCHANGED <<tenants, counts, now, reqTenant, hooks, lastQuery, chainVars, admin>>

\* the account of a user is disabled, or its row deleted, in the store
disableUser(u) ==
  /\ users[u].present /\ users[u].isActive
  /\ users' = [users EXCEPT ![u].isActive = FALSE]
  /\ UNCHANGED <<tenants, counts, now, pc, user, reqTenant, res, seen, hooks,
               lastQuery, req, writes, audit, admin>>

deleteUser(u) ==
  /\ users[u].present
  /\ users' = [users EXCEPT ![u] = NoUserRow]
  /\ UNCHANGED <<tenants, counts, now, pc, user, reqTenant, res, seen, hooks,
               lastQuery, req, writes, audit, admin>>


(***************************************************************************)
(* The routes.  A route of tenantRoutes names the plan middlewares in      *)
(* front of its handler: access is the module checkPlanAccess is given,    *)
(* limits the resource checkPlanLimits is given, permission the account    *)
(* types checkPermission is given; data is the module whose records the    *)
(* handler reads or creates.  POST /login of authRoutes is mounted in      *)
(* front of authenticateToken.                                             *)
(***************************************************************************)
NoTypes == <<>>
Route(mount, method, path, data, access, limits, permission) ==
  [mount |-> mount, method |-> method, path |-> path, data |-> data,
   access |-> access, limits |-> limits, permission |-> permission]

PostRoutes ==
  {Route("tenant", "POST", "/clients", "clients", "clients", "clients", NoTypes),
   Route("tenant", "POST", "/projects", "projects", "projects", "projects", NoTypes),
   Route("tenant", "POST", "/tasks", "tasks", "tasks", Undef, NoTypes),
   Route("tenant", "POST", "/invoices", "invoices", "billing", Undef,
         <<"COMPOSITE", "MANAGERIAL">>),
   Route("tenant", "POST", "/transactions", "transactions", "cash_flow", Undef,
         <<"COMPOSITE", "MANAGERIAL">>)}

GetRoutes ==
  {Route("tenant", "GET", "/" \o m, m, Undef, Undef, NoTypes) :
     m \in {"dashboard", "clients", "projects", "tasks", "invoices", "transactions"}}

LoginRoute == Route("auth", "POST", "/login", "users", Undef, Undef, NoTypes)
RegisterRoute == Route("auth", "POST", "/register", "users", Undef, Undef, NoTypes)

\* faulty variant of router: the route's middlewares are passed over
router_Direct(r) ==
  /\ pc[r] \in {"handling", "entitled"}
  /\ pc' = [pc EXCEPT ![r] = "handler"]
  /\ UNCHANGED <<tenants, counts, now, user, reqTenant, res, seen, hooks, lastQuery,
               chainVars, admin>>

\* Express hands the request to the next middleware of its route
router(r) ==
  /\ \/ /\ pc[r] = "handling"
        /\ pc' = [pc EXCEPT ![r] = IF req[r].route.access # Undef
                                    THEN "access" ELSE "handler"]
     \/ /\ pc[r] = "entitled"
        /\ req[r].route.limits = Undef
        /\ req[r].route.permission = NoTypes
        /\ pc' = [pc EXCEPT ![r] = "handler"]
  /\ UNCHANGED <<tenants, counts, now, user, reqTenant, res, seen, hooks, lastQuery,
               chainVars, admin>>

checkPermission(r, requiredAccountType) ==
  /\ pc[r] = "entitled"
  /\ IF user[r] = NoUser
     THEN Fail(r, 401, "Usuario nao autenticado")
     ELSE IF ~Includes(requiredAccountType, user[r].accountType)
     THEN Fail(r, 403, "Permissao insuficiente para esta operacao")
     ELSE pc' = [pc EXCEPT ![r] = "handler"] /\ UNCHANGED res
  /\ UNCHANGED <<tenants, counts, now, user, reqTenant, seen, hooks, lastQuery,
               chainVars, admin>>


(***************************************************************************)
(* The handlers.  A handler awaits its queries one after the other; the    *)
(* model has one step per data mutation and one for the response.          *)
(***************************************************************************)
\* the model a POST route creates a record of
ModelOf(data) ==
  CASE data = "clients" -> "Client"
    [] data = "projects" -> "Project"
    [] data = "tasks" -> "Task"
    [] data = "invoices" -> "Invoice"
    [] data = "transactions" -> "Transaction"
    [] OTHER -> "User"

Mutation(model, action, tenantId) ==
  [model |-> model, action |-> action, tenantId |-> tenantId]

\* the rows counted by checkPlanLimits after a record of data is created
Counted(data, tenantId) ==
  IF data \in {"clients", "projects"}
  THEN [counts EXCEPT ![tenantId][data] = @ + 1]
  ELSE counts

\* the records stored before the requests of the model: one id for the
\* client, project and user of each tenant
RecordOwner == [rowA |-> "tA", rowB |-> "tB"]
RecordIds == DOMAIN RecordOwner

\* the fields of a create schema that take the id of another record
RefsOf(data) ==
  CASE data = "projects" -> {"clientId", "userId"}
    [] data = "tasks" -> {"projectId", "userId"}
    [] data = "invoices" -> {"clientId", "projectId"}
    [] OTHER -> {}

\* schema.parse(req.body): a z.object drops the keys its schema does not
\* name; no create schema names tenantId
parse(body) == [body EXCEPT !.tenantId = Undef]

\* faulty variant of createData: the body is spread unparsed, over tenantId
createData_BodyWins(body, data, tenantId) ==
  [kind |-> "one",
   tenantId |-> IF body.tenantId # Undef THEN body.tenantId ELSE tenantId,
   rows |-> <<>>,
   ref |-> IF RefsOf(data) # {} THEN body.ref ELSE Undef]

\* data: { ...data, tenantId: user!.tenantId } with data the parsed body: the
\* tenantId key written after the spread is the one the object keeps; the
\* reference fields of the schema are kept as the body gave them
createData(body, data, tenantId) ==
  [kind |-> "one",
   tenantId |-> tenantId,
   rows |-> <<>>,
   ref |-> IF RefsOf(data) # {} THEN parse(body).ref ELSE Undef]

\* the client a route's handler issues its queries on
AuthClient == "routes/auth.routes.ts"
ClientOf(route) == IF route.mount = "auth" THEN AuthClient ELSE RoutesClient

\* the handler of a POST route of tenantRoutes, up to its prisma create:
\* schema.parse(req.body), then await prisma.<model>.create
createRecord(r, created) ==
  /\ pc[r] = "handler"
  /\ req[r].route.method = "POST"
  /\ IF ~req[r].body.valid
     THEN /\ Fail(r, 400, "Erro de validacao")
          /\ UNCHANGED <<writes, counts, lastQuery>>
     ELSE LET create == [model |-> ModelOf(req[r].route.data), action |-> "create",
                         args |-> Args(NoWhere,
                                       createData(req[r].body, req[r].route.data,
                                                  user[r].tenantId))]
              issued == IssuedOn(ClientOf(req[r].route), r, create)
          IN
          /\ lastQuery' = issued
          /\ IF ~created \/ issued.threw
             THEN /\ Fail(r, 500, "Erro interno do servidor")
                  /\ UNCHANGED <<writes, counts>>
             ELSE /\ writes' = [writes EXCEPT ![r] =
                         Append(@, Mutation(create.model, "create",
                                            issued.reached.args.data.tenantId))]
                  /\ counts' = Counted(req[r].route.data,
                                       issued.reached.args.data.tenantId)
                  /\ pc' = [pc EXCEPT ![r] = "audit"]
                  /\ UNCHANGED res
  /\ UNCHANGED <<tenants, now, user, reqTenant, seen, hooks, users, req,
               audit, admin>>

\* the queries of the handler of a GET route: findMany on the route's model
\* with where: { tenantId: user!.tenantId }; for /dashboard two counts and
\* two findMany
ReadsOf(data, tenantId) ==
  LET read(model, action) ==
        [model |-> model, action |-> action,
         args |-> Args(Where(Undef, tenantId), NoData)]
  IN IF data = "dashboard"
     THEN {read("Project", "count"), read("Task", "count"),
           read("Invoice", "findMany"), read("Transaction", "findMany")}
     ELSE {read(ModelOf(data), "findMany")}

\* the handler of a GET route of tenantRoutes: its queries, then res.json
\* with the rows found; lastQuery keeps one of the queries
readRecords(r) ==
  /\ pc[r] = "handler"
  /\ req[r].route.method = "GET"
  /\ \E read \in ReadsOf(req[r].route.data, user[r].tenantId) :
       LET issued == IssuedOn(ClientOf(req[r].route), r, read) IN
       /\ lastQuery' = issued
       /\ res' = [res EXCEPT ![r] =
                    [status |-> 200, data |-> req[r].route.data,
                     tenantId |-> issued.reached.args.where.tenantId]]
  /\ pc' = [pc EXCEPT ![r] = "done"]
  /\ UNCHANGED <<tenants, counts, now, user, reqTenant, seen, hooks,
               chainVars, admin>>

\* faulty variant of login: lastLogin is updated before the checks
login_UpdatesFirst(r) ==
  /\ pc[r] = "login"
  /\ LET row == users[req[r].body.userId] IN
     /\ writes' = [writes EXCEPT ![r] =
          IF req[r].body.valid /\ row.present
          THEN Append(@, Mutation("User", "update", row.tenantId)) ELSE @]
     /\ IF ~req[r].body.valid THEN Fail(r, 400, "Erro de validacao")
        ELSE IF ~row.present THEN Fail(r, 401, "Credenciais invalidas")
        ELSE IF ~row.isActive THEN Fail(r, 403, "Usuario inativo")
        ELSE IF ~tenants[row.tenantId].isActive THEN Fail(r, 403, "Empresa inativa")
        ELSE IF tenants[row.tenantId].expiresAt # NullDate
                  /\ tenants[row.tenantId].expiresAt < now
        THEN Fail(r, 403, "Assinatura expirada")
        ELSE IF ~req[r].body.passwordOk THEN Fail(r, 401, "Credenciais invalidas")
        ELSE pc' = [pc EXCEPT ![r] = "audit"] /\ UNCHANGED res
  /\ UNCHANGED <<tenants, counts, now, user, reqTenant, seen, hooks, lastQuery,
               users, req, audit, admin>>

\* the handler of POST /login, up to its prisma.user.update
login(r) ==
  /\ pc[r] = "login"
  /\ LET row == users[req[r].body.userId] IN
     IF ~req[r].body.valid
     THEN Fail(r, 400, "Erro de validacao") /\ UNCHANGED writes
     ELSE IF ~row.present
     THEN Fail(r, 401, "Credenciais invalidas") /\ UNCHANGED writes
     ELSE IF ~row.isActive
     THEN Fail(r, 403, "Usuario inativo") /\ UNCHANGED writes
     ELSE IF ~tenants[row.tenantId].isActive
     THEN Fail(r, 403, "Empresa inativa") /\ UNCHANGED writes
     ELSE IF tenants[row.tenantId].expiresAt # NullDate
               /\ tenants[row.tenantId].expiresAt < now
     THEN Fail(r, 403, "Assinatura expirada") /\ UNCHANGED writes
     ELSE IF ~req[r].body.passwordOk
     THEN Fail(r, 401, "Credenciais invalidas") /\ UNCHANGED writes
     ELSE /\ writes' = [writes EXCEPT ![r] =
                          Append(@, Mutation("User", "update", row.tenantId))]
          /\ pc' = [pc EXCEPT ![r] = "audit"]
          /\ UNCHANGED res
  /\ UNCHANGED <<tenants, counts, now, user, reqTenant, seen, hooks, lastQuery,
               users, req, audit, admin>>

\* the handler of POST /register, up to its prisma.user.create.  The body's
\* email is that of a stored user (body.userId) or of none; body.tenantId is
\* the tenant to register in.  The model lets the number of a tenant's users
\* grow to one above CeilingOrAbove of its tier and no further.
register(r, created) ==
  /\ pc[r] = "register"
  /\ LET body == req[r].body
         tenantId == body.tenantId
         existingUser ==
           /\ body.userId # Undef
           /\ users[body.userId].present
           /\ users[body.userId].tenantId = tenantId
     IN
     IF ~body.valid
     THEN Fail(r, 400, "Erro de validacao") /\ UNCHANGED <<writes, counts>>
     ELSE IF existingUser
     THEN Fail(r, 409, "Usuario ja existe") /\ UNCHANGED <<writes, counts>>
     ELSE IF tenantId \notin DOMAIN tenants
     THEN Fail(r, 404, "Tenant nao encontrado") /\ UNCHANGED <<writes, counts>>
     ELSE IF ~tenants[tenantId].isActive
     THEN Fail(r, 403, "Tenant inativo") /\ UNCHANGED <<writes, counts>>
     ELSE IF ~created
     THEN Fail(r, 500, "Erro interno do servidor") /\ UNCHANGED <<writes, counts>>
     ELSE /\ counts[tenantId].users
               <= CeilingOrAbove(tenants[tenantId].planType, "users")
          /\ writes' = [writes EXCEPT ![r] =
                          Append(@, Mutation("User", "create", tenantId))]
          /\ counts' = [counts EXCEPT ![tenantId].users = @ + 1]
          /\ pc' = [pc EXCEPT ![r] = "audit"]
          /\ UNCHANGED res
  /\ UNCHANGED <<tenants, now, user, reqTenant, seen, hooks, lastQuery, users, req,
               audit, admin>>

\* createAuditLog is called: prisma.auditLog.create is issued and awaited
createAuditLog(r) ==
  /\ pc[r] = "audit"
  /\ audit' = [audit EXCEPT ![r] = "pending"]
  /\ lastQuery' =
       IssuedOn(ClientOf(req[r].route), r,
                [model |-> "AuditLog", action |-> "create",
                 args |-> Args(NoWhere, createData(req[r].body, "audit",
                                                   writes[r][1].tenantId))])
  /\ pc' = [pc EXCEPT ![r] = "auditing"]
  /\ UNCHANGED <<tenants, counts, now, user, reqTenant, res, seen, hooks,
               users, req, writes, admin>>

\* faulty variant of auditLogSettled: a failed write is thrown on
auditLogSettled_Rethrows(r, written) ==
  /\ pc[r] = "auditing"
  /\ IF written
     THEN /\ audit' = [audit EXCEPT ![r] = "written"]
          /\ writes' = [writes EXCEPT ![r] =
               Append(@, Mutation("AuditLog", "create", Undef))]
          /\ pc' = [pc EXCEPT ![r] = "reply"]
          /\ UNCHANGED res
     ELSE /\ audit' = [audit EXCEPT ![r] = "failed"]
          /\ Fail(r, 500, "Erro interno do servidor")
          /\ UNCHANGED writes
  /\ UNCHANGED <<tenants, counts, now, user, reqTenant, seen, hooks, lastQuery,
               users, req, admin>>

\* the awaited prisma.auditLog.create of createAuditLog settles: the entry is
\* written, or the write throws and the catch block logs it to the console
auditLogSettled(r, written) ==
  /\ pc[r] = "auditing"
  /\ IF written
     THEN /\ audit' = [audit EXCEPT ![r] = "written"]
          /\ writes' = [writes EXCEPT ![r] =
               Append(@, Mutation("AuditLog", "create", Undef))]
     ELSE /\ audit' = [audit EXCEPT ![r] = "failed"]
          /\ UNCHANGED writes
  /\ pc' = [pc EXCEPT ![r] = "reply"]
  /\ UNCHANGED <<tenants, counts, now, user, reqTenant, res, seen, hooks, lastQuery,
               users, req, admin>>

\* the success response of a handler that mutated data
Success(r) ==
  IF req[r].route = LoginRoute
  THEN [status |-> 200, tokenFor |-> req[r].body.userId]
  ELSE [status |-> 201, created |-> ModelOf(req[r].route.data)]

\* res.json(...) or res.status(201).json(...) at the end of the handler
sendResponse(r) ==
  /\ pc[r] = "reply"
  /\ res' = [res EXCEPT ![r] = Success(r)]
  /\ pc' = [pc EXCEPT ![r] = "done"]
  /\ UNCHANGED <<tenants, counts, now, user, reqTenant, seen, hooks, lastQuery,
               chainVars, admin>>


(***************************************************************************)
(* The administrative routes, behind router.use(requireAdmin).             *)
(***************************************************************************)
ADMIN_KEY == "admin-key"
AdminKeys == {ADMIN_KEY, "other-key", Undef}

\* faulty variant of requireAdmin: any key that is present passes
requireAdmin_AnyKey(adminKey) == adminKey # Undef

\* the negation of (!adminKey || adminKey !== process.env.ADMIN_KEY)
requireAdmin(adminKey) == adminKey # Undef /\ adminKey = ADMIN_KEY

\* what is observed of an administrative request: whether it presented the
\* administrative key, and the status it was answered with
AdminAnswer(adminKey, status) ==
  [authorized |-> adminKey = ADMIN_KEY, status |-> status]

\* PATCH /tenants/:id behind requireAdmin
adminPatchTenant(adminKey, id, body) ==
  IF requireAdmin(adminKey)
  THEN /\ patchTenant(id, body)
       /\ admin' = AdminAnswer(adminKey, 200)
  ELSE /\ admin' = AdminAnswer(adminKey, 403)
       /\ UNCHANGED <<tenants, counts, now, pc, user, reqTenant, res, seen, hooks,
                    lastQuery, chainVars>>

\* the body of POST /tenants
NewTenantBodies == [planType : {"COMPOSITE"}, expiresAt : {<<>>}]

\* POST /tenants behind requireAdmin; a tenant whose cnpj is stored already
\* is answered 409.  isActive is left to the schema's default.
adminCreateTenant(adminKey, id, data, isActiveDefault) ==
  IF ~requireAdmin(adminKey)
  THEN /\ admin' = AdminAnswer(adminKey, 403)
       /\ UNCHANGED <<tenants, counts, now, pc, user, reqTenant, res, seen, hooks,
                    lastQuery, chainVars>>
  ELSE IF id \in DOMAIN tenants
  THEN /\ admin' = AdminAnswer(adminKey, 409)
       /\ UNCHANGED <<tenants, counts, now, pc, user, reqTenant, res, seen, hooks,
                    lastQuery, chainVars>>
  ELSE /\ tenants' = [t \in DOMAIN tenants \cup {id} |->
            IF t = id
            THEN [planType |-> data.planType, isActive |-> isActiveDefault,
                  expiresAt |-> IF data.expiresAt # <<>> THEN data.expiresAt[1]
                                ELSE NullDate]
            ELSE tenants[t]]
       /\ admin' = AdminAnswer(adminKey, 201)
       /\ UNCHANGED <<counts, now, pc, user, reqTenant, res, seen, hooks, lastQuery,
                    chainVars>>

(***************************************************************************)
(* A request arrives.                                                      *)
(***************************************************************************)
\* the body of a request: whether it passes the route's zod schema; for
\* POST /login the user its email names and whether the password matches
\* the body names no tenantId of its own, and gives the id of a record of
\* tenant tA where the route's schema has a reference field
Body(valid, userId, passwordOk) ==
  [valid |-> valid, userId |-> userId, passwordOk |-> passwordOk,
   tenantId |-> Undef, ref |-> "rowA"]

\* a body with a tenantId field of its own, or none, and the id it gives in
\* the reference fields
Naming(body, tenantId, ref) == [body EXCEPT !.tenantId = tenantId, !.ref = ref]

Arrive(r, token, route, body) ==
  /\ pc[r] \in {"idle", "done"}
  /\ req' = [req EXCEPT ![r] = [token |-> token, route |-> route, body |-> body]]
  /\ pc' = [pc EXCEPT ![r] = IF route = LoginRoute THEN "login"
                              ELSE IF route = RegisterRoute THEN "register"
                              ELSE "auth"]
  /\ user' = [user EXCEPT ![r] = NoUser]
  /\ reqTenant' = [reqTenant EXCEPT ![r] = NoReqTenant]
  /\ res' = [res EXCEPT ![r] = NoResponse]
  /\ seen' = [seen EXCEPT ![r] = NoSeen]
  /\ writes' = [writes EXCEPT ![r] = <<>>]
  /\ audit' = [audit EXCEPT ![r] = "none"]
  /\ UNCHANGED <<tenants, counts, now, hooks, lastQuery, users, admin>>


(***************************************************************************)
(* SpecAuth: two requests through authenticateToken, with the clock        *)
(* running and the users' accounts being disabled or deleted; a request    *)
(* that passes goes on through tenantMiddleware to a GET handler.          *)
(***************************************************************************)
\* a token expires at time 2, or after the clock's last tick
TokenExpiries == {2, MaxTime + 1}
Tokens ==
  {NoToken, MalformedToken}
    \cup {SignedToken(u, e) : u \in Users, e \in TokenExpiries}

AuthRoutes == {Route("tenant", "GET", "/clients", "clients", Undef, Undef, NoTypes)}

InitAuth ==
  /\ tenants = [t \in Tenants |-> InitOther]
  /\ counts = UsageAround("COMPOSITE", "tA")
  /\ now = 1
  /\ pc = [r \in Reqs |-> "idle"]
  /\ user = [r \in Reqs |-> NoUser]
  /\ reqTenant = [r \in Reqs |-> NoReqTenant]
  /\ res = [r \in Reqs |-> NoResponse]
  /\ seen = [r \in Reqs |-> NoSeen]
  /\ hooks = <<>>
  /\ lastQuery = NoQuery
  /\ users \in [Users -> {UserRow("tA", "COMPOSITE", TRUE)}]
  /\ req = [r \in Reqs |-> NoRequest]
  /\ writes = [r \in Reqs |-> <<>>]
  /\ audit = [r \in Reqs |-> "none"]
  /\ admin = NoAdmin

NextAuth ==
  \/ Tick
  \/ \E u \in Users : disableUser(u)
  \/ \E u \in Users : deleteUser(u)
  \/ \E r \in Reqs, token \in Tokens, route \in AuthRoutes :
       Arrive(r, token, route, Body(TRUE, Undef, TRUE))
  \/ \E r \in Reqs : authenticateToken(r)
  \/ \E r \in Reqs : tenantMiddleware(r)
  \/ \E r \in Reqs : router(r)
  \/ \E r \in Reqs : readRecords(r)

SpecAuth == InitAuth /\ [][NextAuth]_vars

(***************************************************************************)
(* SpecChain: a request through the whole application: authenticateToken,  *)
(* tenantMiddleware, the plan middlewares of its route and its handler, or *)
(* POST /login; beside it the clock and the administrative routes.         *)
(***************************************************************************)
ChainReqs == {"r1"}
ChainRoutes == PostRoutes \cup GetRoutes \cup {LoginRoute}
ChainTokens == {NoToken} \cup {SignedToken(u, MaxTime + 1) : u \in Users}
ChainPlans == {"SIMPLE", "MANAGERIAL"}

\* what a request can arrive with on a route
ArrivalsOn(route) ==
  IF route.mount = "auth"
  THEN {[token |-> NoToken, route |-> route, body |-> Body(v, u, p)] :
          v \in BOOLEAN, u \in Users, p \in BOOLEAN}
  ELSE {[token |-> t, route |-> route, body |-> Body(v, Undef, TRUE)] :
          t \in ChainTokens, v \in IF route.method = "POST" THEN BOOLEAN ELSE {TRUE}}

\* the bodies of PATCH /tenants/:id that change one field
InitChain ==
  /\ tenants \in {[tA |-> st] :
                    st \in [planType : ChainPlans, isActive : BOOLEAN,
                            expiresAt : {NullDate} \cup ExpiryDates]}
  /\ counts = UsageAround("SIMPLE", "tA")
  /\ now = 1
  /\ pc = [r \in Reqs |-> "idle"]
  /\ user = [r \in Reqs |-> NoUser]
  /\ reqTenant = [r \in Reqs |-> NoReqTenant]
  /\ res = [r \in Reqs |-> NoResponse]
  /\ seen = [r \in Reqs |-> NoSeen]
  /\ hooks = <<>>
  /\ lastQuery = NoQuery
  /\ users \in [Users -> {UserRow("tA", a, TRUE) : a \in ChainPlans}]
  /\ req = [r \in Reqs |-> NoRequest]
  /\ writes = [r \in Reqs |-> <<>>]
  /\ audit = [r \in Reqs |-> "none"]
  /\ admin = NoAdmin

\* the steps of a request through the application
ChainStep(r) ==
  \/ authenticateToken(r)
  \/ tenantMiddleware(r)
  \/ router(r)
  \/ req[r].route.access # Undef /\ checkPlanAccess(r, req[r].route.access)
  \/ req[r].route.limits # Undef /\ checkPlanLimits(r, req[r].route.limits)
  \/ req[r].route.permission # NoTypes
       /\ checkPermission(r, req[r].route.permission)
  \/ \E created \in BOOLEAN : createRecord(r, created)
  \/ readRecords(r)
  \/ login(r)
  \/ createAuditLog(r)
  \/ \E written \in BOOLEAN : auditLogSettled(r, written)
  \/ sendResponse(r)

NextChain ==
  \/ Tick
  \/ \E r \in ChainReqs, route \in ChainRoutes : \E a \in ArrivalsOn(route) :
       Arrive(r, a.token, a.route, a.body)
  \/ \E r \in ChainReqs : ChainStep(r)

SpecChain == InitChain /\ [][NextChain]_vars

(***************************************************************************)
(* SpecHandler: requests of a principal of tenant tA through the           *)
(* application to the handlers of tenantRoutes, with bodies that name a    *)
(* tenantId of their own and records of either tenant.  Both tenants are   *)
(* MANAGERIAL and in good standing, so every route is open.                *)
(***************************************************************************)
HandlerBodies ==
  {Naming(Body(TRUE, Undef, TRUE), t, ref) :
     t \in Tenants \cup {Undef}, ref \in RecordIds}

HandlerArrivals ==
  {[token |-> SignedToken(u, MaxTime + 1), route |-> route, body |-> body] :
     u \in Users, route \in PostRoutes, body \in HandlerBodies}
  \cup
  {[token |-> SignedToken(u, MaxTime + 1), route |-> route,
    body |-> Body(TRUE, Undef, TRUE)] : u \in Users, route \in GetRoutes}
  \cup
  {[token |-> NoToken, route |-> LoginRoute, body |-> Body(TRUE, u, TRUE)] :
     u \in Users}

InitHandler ==
  /\ tenants = [t \in Tenants |->
                  [planType |-> "MANAGERIAL", isActive |-> TRUE,
                   expiresAt |-> NullDate]]
  /\ counts = UsageAround("SIMPLE", "tA")
  /\ now = 1
  /\ pc = [r \in Reqs |-> "idle"]
  /\ user = [r \in Reqs |-> NoUser]
  /\ reqTenant = [r \in Reqs |-> NoReqTenant]
  /\ res = [r \in Reqs |-> NoResponse]
  /\ seen = [r \in Reqs |-> NoSeen]
  /\ hooks = <<>>
  /\ lastQuery = NoQuery
  /\ users = [u \in Users |-> UserRow("tA", "MANAGERIAL", TRUE)]
  /\ req = [r \in Reqs |-> NoRequest]
  /\ writes = [r \in Reqs |-> <<>>]
  /\ audit = [r \in Reqs |-> "none"]
  /\ admin = NoAdmin

NextHandler ==
  \/ \E r \in ChainReqs, a \in HandlerArrivals : Arrive(r, a.token, a.route, a.body)
  \/ \E r \in ChainReqs : ChainStep(r)

SpecHandler == InitHandler /\ [][NextHandler]_vars

(***************************************************************************)
(* SpecPrincipal: requests whose token was issued when the account had a   *)
(* tenant and an account type that it may not have any more.               *)
(***************************************************************************)
PrincipalTokens ==
  {Claiming(SignedToken(u, MaxTime + 1), t, a) :
     u \in Users, t \in Tenants, a \in ChainPlans}

PrincipalArrivals ==
  {[token |-> token, route |-> route, body |-> Body(TRUE, Undef, TRUE)] :
     token \in PrincipalTokens, route \in PostRoutes \cup GetRoutes}
  \cup
  {[token |-> NoToken, route |-> LoginRoute, body |-> Body(TRUE, u, TRUE)] :
     u \in Users}

InitPrincipal ==
  /\ tenants = [t \in Tenants |->
                  [planType |-> "MANAGERIAL", isActive |-> TRUE,
                   expiresAt |-> NullDate]]
  /\ counts = UsageAround("SIMPLE", "tA")
  /\ now = 1
  /\ pc = [r \in Reqs |-> "idle"]
  /\ user = [r \in Reqs |-> NoUser]
  /\ reqTenant = [r \in Reqs |-> NoReqTenant]
  /\ res = [r \in Reqs |-> NoResponse]
  /\ seen = [r \in Reqs |-> NoSeen]
  /\ hooks = <<>>
  /\ lastQuery = NoQuery
  /\ users \in [Users -> {UserRow(t, a, TRUE) : t \in Tenants, a \in ChainPlans}]
  /\ req = [r \in Reqs |-> NoRequest]
  /\ writes = [r \in Reqs |-> <<>>]
  /\ audit = [r \in Reqs |-> "none"]
  /\ admin = NoAdmin

NextPrincipal ==
  \/ \E r \in ChainReqs, a \in PrincipalArrivals :
       Arrive(r, a.token, a.route, a.body)
  \/ \E r \in ChainReqs : ChainStep(r)

SpecPrincipal == InitPrincipal /\ [][NextPrincipal]_vars

(***************************************************************************)
(* SpecRace: two requests side by side on POST /clients and POST /projects *)
(* of a tenant that is one record below its ceiling where the ceiling is   *)
(* positive.  Each await of a middleware or handler is a point where the   *)
(* other request can run.  Nothing changes the tenant's tier.              *)
(***************************************************************************)
RacePlans == {"SIMPLE", "COMPOSITE"}
RaceRoutes == {rt \in PostRoutes : rt.limits # Undef}

InitRace ==
  /\ \E plan \in RacePlans :
       /\ tenants = [t \in Tenants |->
                       [planType |-> plan, isActive |-> TRUE, expiresAt |-> NullDate]]
       /\ counts = UsageAround(plan, "tA")
  /\ now = 1
  /\ pc = [r \in Reqs |-> "idle"]
  /\ user = [r \in Reqs |-> NoUser]
  /\ reqTenant = [r \in Reqs |-> NoReqTenant]
  /\ res = [r \in Reqs |-> NoResponse]
  /\ seen = [r \in Reqs |-> NoSeen]
  /\ hooks = <<>>
  /\ lastQuery = NoQuery
  /\ users = [u \in Users |-> UserRow("tA", "COMPOSITE", TRUE)]
  /\ req = [r \in Reqs |-> NoRequest]
  /\ writes = [r \in Reqs |-> <<>>]
  /\ audit = [r \in Reqs |-> "none"]
  /\ admin = NoAdmin

\* the steps of a request on a route with checkPlanAccess and checkPlanLimits
RaceStep(r) ==
  \/ authenticateToken(r)
  \/ tenantMiddleware(r)
  \/ router(r)
  \/ checkPlanAccess(r, req[r].route.access)
  \/ checkPlanLimits(r, req[r].route.limits)
  \/ \E created \in BOOLEAN : createRecord(r, created)
  \/ createAuditLog(r)
  \/ \E written \in BOOLEAN : auditLogSettled(r, written)
  \/ sendResponse(r)

NextRace ==
  \/ \E r \in Reqs, u \in Users, route \in RaceRoutes :
       Arrive(r, SignedToken(u, MaxTime + 1), route, Body(TRUE, Undef, TRUE))
  \/ \E r \in Reqs : RaceStep(r)

SpecRace == InitRace /\ [][NextRace]_vars

(***************************************************************************)
(* SpecRegister: requests on POST /register of authRoutes, for a tenant    *)
(* whose users are one below the ceiling of its tier, or at it.            *)
(***************************************************************************)
RegisterBodies ==
  {Naming(Body(valid, u, TRUE), t, "rowA") :
     valid \in BOOLEAN, u \in Users \cup {Undef}, t \in Tenants \cup {"tC"}}

InitRegister ==
  /\ \E plan \in RacePlans, below \in Tenants :
       /\ tenants = [tA |-> [planType |-> plan, isActive |-> TRUE,
                             expiresAt |-> NullDate],
                     tB |-> [planType |-> plan, isActive |-> FALSE,
                             expiresAt |-> NullDate]]
       /\ counts = UsageAround(plan, below)
  /\ now = 1
  /\ pc = [r \in Reqs |-> "idle"]
  /\ user = [r \in Reqs |-> NoUser]
  /\ reqTenant = [r \in Reqs |-> NoReqTenant]
  /\ res = [r \in Reqs |-> NoResponse]
  /\ seen = [r \in Reqs |-> NoSeen]
  /\ hooks = <<>>
  /\ lastQuery = NoQuery
  /\ users = [u \in Users |-> UserRow("tA", "COMPOSITE", TRUE)]
  /\ req = [r \in Reqs |-> NoRequest]
  /\ writes = [r \in Reqs |-> <<>>]
  /\ audit = [r \in Reqs |-> "none"]
  /\ admin = NoAdmin

NextRegister ==
  \/ \E r \in Reqs, body \in RegisterBodies :
       Arrive(r, NoToken, RegisterRoute, body)
  \/ \E r \in Reqs, created \in BOOLEAN : register(r, created)
  \/ \E r \in Reqs : createAuditLog(r)
  \/ \E r \in Reqs, written \in BOOLEAN : auditLogSettled(r, written)
  \/ \E r \in Reqs : sendResponse(r)

SpecRegister == InitRegister /\ [][NextRegister]_vars

(***************************************************************************)
(* SpecOutcome: as SpecChain, and checkPlanFeature, which stands on no     *)
(* route of tenantRoutes, may run in the place of checkPlanLimits.         *)
(***************************************************************************)
NextOutcome ==
  \/ Tick
  \/ \E r \in ChainReqs, route \in ChainRoutes : \E a \in ArrivalsOn(route) :
       Arrive(r, a.token, a.route, a.body)
  \/ \E r \in ChainReqs : ChainStep(r)
  \/ \E r \in ChainReqs, f \in Features :
       req[r].route.limits # Undef /\ checkPlanFeature(r, f)

SpecOutcome == InitChain /\ [][NextOutcome]_vars

(***************************************************************************)
(* SpecLogin: requests on POST /login while the clock runs, accounts are   *)
(* disabled or deleted, and the user's tenant is inactive or has an expiry *)
(* date.                                                                   *)
(***************************************************************************)
LoginBodies == {Body(valid, u, ok) : valid \in BOOLEAN, u \in Users, ok \in BOOLEAN}

NextLogin ==
  \/ Tick
  \/ \E u \in Users : disableUser(u)
  \/ \E u \in Users : deleteUser(u)
  \/ \E r \in Reqs, body \in LoginBodies : Arrive(r, NoToken, LoginRoute, body)
  \/ \E r \in Reqs : login(r)
  \/ \E r \in Reqs : createAuditLog(r)
  \/ \E r \in Reqs, written \in BOOLEAN : auditLogSettled(r, written)
  \/ \E r \in Reqs : sendResponse(r)

SpecLogin == InitChain /\ [][NextLogin]_vars

(***************************************************************************)
(* SpecAdmin: the administrative routes beside a request through the       *)
(* application.  checkPlanFeature is exported but stands on no route of    *)
(* tenantRoutes; here it may run where a route has checkPlanLimits.  The   *)
(* clock stands still.                                                     *)
(***************************************************************************)
AdminRoutes ==
  {rt \in PostRoutes : rt.path \in {"/clients", "/invoices"}}
    \cup {rt \in GetRoutes : rt.path = "/clients"} \cup {LoginRoute}

\* the bodies of PATCH /tenants/:id that change one field
AdminPatches ==
  {b \in PatchBodies : Len(b.isActive) + Len(b.expiresAt) + Len(b.planType) = 1
                         /\ (b.planType # <<>> => b.planType[1] \in ChainPlans)}

AdminArrivals ==
  UNION {{a \in ArrivalsOn(route) : a.body.valid /\ a.body.passwordOk} :
           route \in AdminRoutes}

InitAdmin ==
  /\ tenants = [tA |-> [planType |-> "MANAGERIAL", isActive |-> TRUE,
                        expiresAt |-> NullDate]]
  /\ counts = UsageAround("SIMPLE", "tA")
  /\ now = 1
  /\ pc = [r \in Reqs |-> "idle"]
  /\ user = [r \in Reqs |-> NoUser]
  /\ reqTenant = [r \in Reqs |-> NoReqTenant]
  /\ res = [r \in Reqs |-> NoResponse]
  /\ seen = [r \in Reqs |-> NoSeen]
  /\ hooks = <<>>
  /\ lastQuery = NoQuery
  /\ users = [u \in Users |-> UserRow("tA", "MANAGERIAL", TRUE)]
  /\ req = [r \in Reqs |-> NoRequest]
  /\ writes = [r \in Reqs |-> <<>>]
  /\ audit = [r \in Reqs |-> "none"]
  /\ admin = NoAdmin

NextAdmin ==
  \/ \E k \in AdminKeys, id \in PatchTargets, body \in AdminPatches :
       adminPatchTenant(k, id, body)
  \/ \E k \in AdminKeys, data \in NewTenantBodies, dflt \in BOOLEAN :
       adminCreateTenant(k, "tB", data, dflt)
  \/ \E r \in ChainReqs, a \in AdminArrivals : Arrive(r, a.token, a.route, a.body)
  \/ \E r \in ChainReqs : ChainStep(r)
  \/ \E r \in ChainReqs, f \in Features :
       req[r].route.limits # Undef /\ checkPlanFeature(r, f)

SpecAdmin == InitAdmin /\ [][NextAdmin]_vars


(***************************************************************************)
(* Properties of tenant scoping (SpecScope).                               *)
(***************************************************************************)
\* the last query was issued for a request, on a model of tenantModels, with
\* one of the actions the hook rewrites (a create with its data), and was
\* passed on to the data layer
Rewritten(q, actions) ==
  /\ q.principal # Undef
  /\ ~q.threw
  /\ Includes(tenantModels, q.sent.model)
  /\ q.sent.action \in actions
  /\ q.sent.action \in CreateActions => q.sent.args.data.kind # "none"

\* the tenant id the hooks left in a query: in its filter, or on its data
ScopedTo(params) ==
  IF params.action \in CreateActions
  THEN params.args.data.tenantId
  ELSE params.args.where.tenantId

\* the records of a create or createMany that reach the data layer
RecordsOf(data) ==
  CASE data.kind = "one" -> {[tenantId |-> data.tenantId]}
    [] data.kind = "many" -> {[tenantId |-> data.rows[i].tenantId] : i \in 1..Len(data.rows)}
    [] OTHER -> {}

\* C1: whatever the interleaving of requests of different tenants, the tenant
\* id the scoping hooks leave in a query issued for a request of tenant T is
\* T, never the id captured for a request of another tenant.
C1_ScopedToOwnTenant ==
  Rewritten(lastQuery, WhereActions \cup CreateActions)
    => ScopedTo(lastQuery.reached) = lastQuery.principal

\* C2: for every findUnique, findFirst, findMany, update, updateMany, delete
\* and deleteMany on a tenant-scoped model, whatever filter the caller gave,
\* the filter that reaches the data layer has the principal's tenantId.
C2_FilterHasPrincipalTenant ==
  Rewritten(lastQuery, WhereActions)
    => /\ lastQuery.reached.args.where.present
       /\ lastQuery.reached.args.where.tenantId = lastQuery.principal

\* C3: for every create and createMany on a tenant-scoped model, every record
\* that reaches the data layer has the principal's tenantId, whatever
\* tenantId the caller gave.
C3_RecordsHavePrincipalTenant ==
  Rewritten(lastQuery, CreateActions)
    => \A rec \in RecordsOf(lastQuery.reached.args.data) :
         rec.tenantId = lastQuery.principal

\* C23: handling requests leaves no scoping state on the shared client: when
\* no request is being handled, the $use callbacks on the client are those
\* of before the first request (none), however many requests have passed
\* through tenantMiddleware.
C23_NoHooksLeftBehind ==
  (\A r \in Reqs : pc[r] \in {"idle", "done"}) => hooks = <<>>

(***************************************************************************)
(* Properties of the scoped entity types (SpecEntities).                   *)
(***************************************************************************)
\* the entities that carry a tenantId
TenantScoped ==
  {"User", "Client", "Project", "Task", "Invoice", "Transaction", "File"}

\* C22: a query that runs through the scoping callback of a request is
\* rewritten to a tenant id if its entity is one of those that carry a
\* tenantId (User, Client, Project, Task, Invoice, Transaction, File), and
\* reaches the data layer as it was sent if it is on the Tenant record.
C22_EveryScopedEntityRewritten ==
  /\ lastQuery.principal # Undef /\ lastQuery.client = TenantClient
  /\ lastQuery.ran # <<>> /\ ~lastQuery.threw
  => /\ lastQuery.sent.model \in TenantScoped
          => ScopedTo(lastQuery.reached) \in Tenants
     /\ lastQuery.sent.model = "Tenant"
          => lastQuery.reached = lastQuery.sent

(***************************************************************************)
(* Properties of the plan policy tables and plan checks (SpecPlan).        *)
(***************************************************************************)
ModulesOf(plan) == {PLAN_MODULES[plan][i] : i \in 1..Len(PLAN_MODULES[plan])}
Elements(seq) == {seq[i] : i \in 1..Len(seq)}
Ascending(seq) ==
  \A i, j \in 1..Len(seq) : i < j => PLAN_LEVELS[seq[i]] < PLAN_LEVELS[seq[j]]
CeilingIn(plan, resourceType) ==
  CASE resourceType = "users" -> PLAN_LIMITS[plan].maxUsers
    [] resourceType = "clients" -> PLAN_LIMITS[plan].maxClients
    [] resourceType = "projects" -> PLAN_LIMITS[plan].maxProjects
    [] resourceType = "storage" -> PLAN_LIMITS[plan].maxStorage
\* request r ran this plan check last
Ran(r, check) == seen[r].check = check

\* C4: for all tiers t1 < t2 by PLAN_LEVELS, every module of PLAN_MODULES[t1]
\* is a module of PLAN_MODULES[t2]; stated of every module that
\* checkPlanAccess has let a request through for.
C4_ModulesMonotonic ==
  \A r \in Reqs :
    Ran(r, "access") /\ seen[r].verdict = "next" =>
      \A t1, t2 \in PlanTypes :
        PLAN_LEVELS[t1] < PLAN_LEVELS[t2] /\ seen[r].arg \in ModulesOf(t1)
          => seen[r].arg \in ModulesOf(t2)

\* C5: for all tiers t1 < t2, every feature flag that is true for t1 is true
\* for t2; so a feature a request was let through for under its tier is
\* enabled in every higher tier.
C5_FeaturesMonotonic ==
  /\ \A t1, t2 \in PlanTypes : \A f \in Features :
       PLAN_LEVELS[t1] < PLAN_LEVELS[t2] /\ PLAN_LIMITS[t1].features[f]
         => PLAN_LIMITS[t2].features[f]
  /\ \A r \in Reqs :
       Ran(r, "feature") /\ seen[r].verdict = "next"
         => \A t2 \in PlanTypes :
              PLAN_LEVELS[t2] > PLAN_LEVELS[reqTenant[r].planType]
                => PLAN_LIMITS[t2].features[seen[r].arg]
C5_Witness ==
  \E r \in Reqs :
    /\ Ran(r, "feature") /\ seen[r].verdict = "next"
    /\ reqTenant[r].planType = "COMPOSITE"
    /\ seen[r].arg = "api_access"

\* C6: checkPlanLimits lets the request through exactly when the ceiling of
\* the resource in the request's plan is -1 or the tenant's count is below
\* the ceiling; otherwise it ends the request with a denial.
C6_AllowsIffBelowCeiling ==
  \A r \in Reqs :
    Ran(r, "limits") =>
      LET ceiling == CeilingIn(reqTenant[r].planType, seen[r].arg)
          count == seen[r].counts[seen[r].arg]
      IN /\ seen[r].verdict = "next" <=> (ceiling = -1 \/ count < ceiling)
         /\ seen[r].verdict = "next" => pc[r] = "handler" /\ res[r] = NoResponse
         /\ seen[r].verdict = "deny" => pc[r] = "done" /\ res[r].status = 403
C6_Witness ==
  \E r \in Reqs :
    /\ Ran(r, "limits") /\ seen[r].verdict = "next"
    /\ CeilingIn(reqTenant[r].planType, seen[r].arg) > 0
    /\ seen[r].counts[seen[r].arg] = CeilingIn(reqTenant[r].planType, seen[r].arg) - 1

\* C7: a denial by checkPlanLimits for a ceiling of zero does not carry the
\* code of a denial for a positive ceiling that was reached, which is
\* PLAN_LIMIT_EXCEEDED.
C7_ZeroCeilingHasOwnCode ==
  \A r \in Reqs :
    /\ Ran(r, "limits") /\ seen[r].verdict = "deny"
    /\ CeilingIn(reqTenant[r].planType, seen[r].arg) = 0
    => res[r].code # "PLAN_LIMIT_EXCEEDED"

\* C8: whichever of the three plan checks a request runs, if the tenant is
\* stored inactive at that moment the check denies with TENANT_INACTIVE, and
\* if it is active but its expiry has passed the check denies with
\* PLAN_EXPIRED.
C8_ChecksRevalidateLifecycle ==
  \A r \in Reqs :
    Ran(r, "access") \/ Ran(r, "limits") \/ Ran(r, "feature") =>
      /\ ~seen[r].isActive
           => seen[r].verdict = "deny" /\ res[r].code = "TENANT_INACTIVE"
      /\ seen[r].isActive /\ seen[r].expired
           => seen[r].verdict = "deny" /\ res[r].code = "PLAN_EXPIRED"

\* C9: when checkPlanAccess denies a tenant that is active and not expired,
\* the denial is 403 PLAN_ACCESS_DENIED with the tenant's tier, the requested
\* module, the tier's module list, and as suggestedPlans exactly the tiers
\* whose modules include the requested one, in ascending tier order.
C9_AccessDenialPayload ==
  \A r \in Reqs :
    Ran(r, "access") /\ seen[r].verdict = "deny"
      /\ seen[r].isActive /\ ~seen[r].expired
    => /\ res[r].status = 403
       /\ res[r].code = "PLAN_ACCESS_DENIED"
       /\ res[r].currentPlan = seen[r].planType
       /\ res[r].requiredModule = seen[r].arg
       /\ res[r].requiredModule \notin ModulesOf(seen[r].planType)
       /\ res[r].allowedModules = PLAN_MODULES[seen[r].planType]
       /\ Elements(res[r].suggestedPlans)
            = {p \in PlanTypes : seen[r].arg \in ModulesOf(p)}
       /\ Ascending(res[r].suggestedPlans)
       /\ (seen[r].planType = "SIMPLE" /\ seen[r].arg = "projects"
             => res[r].suggestedPlans = <<"COMPOSITE", "MANAGERIAL">>)
C9_Witness ==
  \E r \in Reqs :
    /\ Ran(r, "access") /\ seen[r].verdict = "deny"
    /\ seen[r].isActive /\ ~seen[r].expired
    /\ seen[r].planType = "SIMPLE" /\ seen[r].arg = "projects"

\* C10: a denial by checkPlanLimits is 403 PLAN_LIMIT_EXCEEDED with the
\* tenant's count and the ceiling of the request's tier for the resource, and
\* every tier in suggestedPlans has a ceiling for the resource that is
\* unlimited or strictly above that ceiling.
C10_LimitDenialPayload ==
  \A r \in Reqs :
    Ran(r, "limits") /\ seen[r].verdict = "deny"
    => /\ res[r].status = 403
       /\ res[r].code = "PLAN_LIMIT_EXCEEDED"
       /\ res[r].currentPlan = reqTenant[r].planType
       /\ res[r].resourceType = seen[r].arg
       /\ res[r].currentCount = seen[r].counts[seen[r].arg]
       /\ res[r].maxAllowed = CeilingIn(reqTenant[r].planType, seen[r].arg)
       /\ \A p \in Elements(res[r].suggestedPlans) :
            \/ CeilingIn(p, seen[r].arg) = -1
            \/ CeilingIn(p, seen[r].arg) > res[r].maxAllowed
C10_Witness ==
  \E r \in Reqs :
    /\ Ran(r, "limits") /\ seen[r].verdict = "deny"
    /\ res[r].currentPlan = "SIMPLE" /\ res[r].resourceType = "clients"
    /\ res[r].currentCount = 50 /\ res[r].maxAllowed = 50
    /\ res[r].suggestedPlans = <<"COMPOSITE", "MANAGERIAL">>

\* C11: checkPlanFeature lets the request through exactly when the feature's
\* flag is true in the request's tier; otherwise it ends the request with 403
\* FEATURE_NOT_AVAILABLE carrying that tier, the feature, and as
\* suggestedPlans exactly the tiers whose flag for the feature is true.
C11_FeatureGate ==
  \A r \in Reqs :
    Ran(r, "feature") =>
      LET plan == reqTenant[r].planType
          feature == seen[r].arg
      IN /\ seen[r].verdict = "next" <=> PLAN_LIMITS[plan].features[feature]
         /\ seen[r].verdict = "next" => pc[r] = "handler" /\ res[r] = NoResponse
         /\ seen[r].verdict = "deny" =>
              /\ pc[r] = "done"
              /\ res[r].status = 403
              /\ res[r].code = "FEATURE_NOT_AVAILABLE"
              /\ res[r].currentPlan = plan
              /\ res[r].feature = feature
              /\ Elements(res[r].suggestedPlans)
                   = {p \in PlanTypes : PLAN_LIMITS[p].features[feature]}
              /\ Ascending(res[r].suggestedPlans)
C11_Witness ==
  \E r \in Reqs :
    /\ Ran(r, "feature") /\ seen[r].verdict = "deny"
    /\ res[r].currentPlan = "COMPOSITE" /\ res[r].feature = "billing"
    /\ res[r].suggestedPlans = <<"MANAGERIAL">>

(***************************************************************************)
(* Properties of repeated plan checks (SpecRepeat).                        *)
(***************************************************************************)
\* requests r and q ran the same plan check with the same argument for the
\* same tenant, and found the same state stored for it
SameCheck(r, q) ==
  /\ seen[r].check # "none" /\ seen[q].check # "none"
  /\ seen[r].check = seen[q].check
  /\ seen[r].arg = seen[q].arg
  /\ seen[r].tenantId = seen[q].tenantId
  /\ seen[r].planType = seen[q].planType
  /\ seen[r].isActive = seen[q].isActive
  /\ seen[r].expiresAt = seen[q].expiresAt
  /\ seen[r].counts = seen[q].counts

C13_DisabledAccountRejected ==
  \A r \in Reqs :
    /\ Ran(r, "auth") /\ seen[r].token = "valid"
    /\ seen[r].account \in {"disabled", "deleted"}
    => /\ seen[r].verdict = "deny"
       /\ pc[r] = "done"
       /\ res[r].status = 401
       /\ user[r] = NoUser
C13_Witness ==
  \E r \in Reqs :
    /\ Ran(r, "auth") /\ seen[r].token = "valid" /\ seen[r].account = "disabled"
    /\ seen[r].verdict = "deny" /\ pc[r] = "done"
    /\ \E q \in Reqs : res[q].status = 200

\* the outcome the contract names for a request authenticateToken rejected
AuthOutcome(r) ==
  IF seen[r].token \in {"missing", "malformed"} THEN "Unauthenticated"
  ELSE IF seen[r].token = "expired" THEN "Expired"
  ELSE "InactiveAccount"

\* C14: a rejection by authenticateToken ends the request, and rejections
\* with different outcomes (Unauthenticated for a missing or malformed
\* token, Expired, InactiveAccount) are answered with different responses.
C14_FailuresDistinguishable ==
  \A r, q \in Reqs :
    /\ Ran(r, "auth") /\ seen[r].verdict = "deny"
    /\ Ran(q, "auth") /\ seen[q].verdict = "deny"
    => /\ pc[r] = "done" /\ res[r] # NoResponse
       /\ AuthOutcome(r) # AuthOutcome(q) => res[r] # res[q]

(***************************************************************************)
(* Properties of a request through the application (SpecChain).            *)
(***************************************************************************)
\* C15: when the audit write of a request fails, the data mutation of the
\* request stays executed, the handler goes on to its response, and the
\* response is the success response of the route.
C15_AuditFailureHarmless ==
  \A r \in Reqs :
    audit[r] = "failed" =>
      /\ Len(writes[r]) = 1 /\ writes[r][1].model # "AuditLog"
      /\ pc[r] \in {"reply", "done"}
      /\ pc[r] = "done" =>
           /\ res[r].status \in {200, 201}
           /\ res[r] = Success(r)
C15_Witness ==
  \E r \in Reqs :
    /\ audit[r] = "failed" /\ pc[r] = "done"
    /\ req[r].route.path = "/clients" /\ res[r].status = 201
    /\ writes[r] = <<Mutation("Client", "create", "tA")>>

\* C16: while the audit write of a request is pending, the handler is not
\* waiting for it: its response can be sent.
C16_ResponseDoesNotWait ==
  \A r \in Reqs : audit[r] = "pending" => ENABLED sendResponse(r)

\* a denial of identity, lifecycle, entitlement or permission
Denied(r) == pc[r] = "done" /\ res[r].status \in {401, 403, 404}

\* C17: for a request that ended in a denial no data mutation was executed
\* and no audit write issued.
C17_DenialLeavesNoMutation ==
  \A r \in Reqs : Denied(r) => writes[r] = <<>> /\ audit[r] = "none"
C17_Witness ==
  \E r \in Reqs :
    /\ Denied(r) /\ Ran(r, "limits") /\ res[r].code = "PLAN_LIMIT_EXCEEDED"
    /\ req[r].route.path = "/clients" /\ req[r].route.method = "POST"
    /\ counts[user[r].tenantId].clients = 50

\* C18: a request on a route of tenantRoutes is answered with success only
\* if the tier of the principal's tenant includes the module whose records
\* the route reads or creates.
C18_ModuleRoutesGated ==
  \A r \in Reqs :
    /\ pc[r] = "done" /\ res[r].status \in {200, 201}
    /\ req[r].route.mount = "tenant"
    => Includes(PLAN_MODULES[tenants[user[r].tenantId].planType],
                req[r].route.data)

\* the code of a response, if it has one
CodeOf(response) == IF "code" \in DOMAIN response THEN response.code ELSE Undef

\* C20: when a request of an authenticated principal on a route of
\* tenantRoutes is answered while the principal's tenant is inactive, the
\* answer is 403 TENANT_INACTIVE; while it is active and its expiry has
\* passed, 403 PLAN_EXPIRED with expiresAt.
C20_LifecycleDenialCodes ==
  [][\A r \in Reqs :
       /\ pc[r] # "done" /\ pc'[r] = "done"
       /\ req[r].route.mount = "tenant"
       /\ user[r] # NoUser
       => LET tenant == tenants[user[r].tenantId] IN
          /\ ~tenant.isActive
               => res'[r].status = 403 /\ CodeOf(res'[r]) = "TENANT_INACTIVE"
          /\ tenant.isActive /\ Expired(tenant, now)
               => /\ res'[r].status = 403 /\ CodeOf(res'[r]) = "PLAN_EXPIRED"
                  /\ res'[r].expiresAt = tenant.expiresAt]_vars

(***************************************************************************)
(* Properties of the handlers' queries (SpecHandler).                      *)
(***************************************************************************)
\* the last query was issued by the handler of a route of tenantRoutes, for
\* a request tenantMiddleware has let through, on a tenant-scoped model
ByHandler(q) ==
  /\ q.principal # Undef
  /\ q.client = RoutesClient
  /\ Includes(tenantModels, q.sent.model)

\* C21: a data operation that a handler issues on a tenant-scoped entity
\* after tenantMiddleware has run for its request passes through the scoping
\* rewrite: the callback tenantMiddleware installed for the request runs on
\* it, whichever client the handler issues it on.
C21_HandlerQueriesPassTheRewrite ==
  ByHandler(lastQuery) => Includes(lastQuery.ran, lastQuery.principal)

\* C25: every query a handler of tenantRoutes issues on a tenant-scoped
\* entity is bound by the handler to the principal's tenant id, in the
\* filter for reads and counts and in the record for creates, whatever the
\* body, a body with a tenantId of its own included.
C25_HandlerBindsPrincipalTenant ==
  ByHandler(lastQuery) =>
    IF lastQuery.sent.action \in CreateActions
    THEN /\ lastQuery.sent.args.data.kind = "one"
         /\ lastQuery.sent.args.data.tenantId = lastQuery.principal
    ELSE /\ lastQuery.sent.args.where.present
         /\ lastQuery.sent.args.where.tenantId = lastQuery.principal
C25_Witness ==
  /\ ByHandler(lastQuery) /\ lastQuery.sent.action = "create"
  /\ lastQuery.sent.model = "Client"
  /\ \E r \in Reqs :
       /\ pc[r] = "audit" /\ req[r].body.tenantId = "tB"
       /\ user[r].tenantId = "tA"
       /\ writes[r] = <<Mutation("Client", "create", "tA")>>

\* C28: a record created through a tenant route refers only to records of
\* the principal's tenant: the id in its reference fields (clientId,
\* projectId, userId) is the id of a record of that tenant, whatever the body.
C28_ReferencesStayInTenant ==
  /\ ByHandler(lastQuery) /\ lastQuery.sent.action = "create" /\ ~lastQuery.threw
  /\ lastQuery.reached.args.data.ref # Undef
  => RecordOwner[lastQuery.reached.args.data.ref] = lastQuery.principal

(***************************************************************************)
(* Properties of the principal (SpecPrincipal).                            *)
(***************************************************************************)
\* C24: the principal authenticateToken attaches to a request has the tenant
\* id and account type of the account's current record, not those of the
\* token's claims, and no later step of the same request changes it.
C24_PrincipalFromRecord ==
  [][\A r \in Reqs :
       /\ pc[r] = "auth" /\ pc'[r] = "tenant"
            => LET row == users[req[r].token.userId] IN
               user'[r] = [userId |-> req[r].token.userId,
                           tenantId |-> row.tenantId,
                           accountType |-> row.accountType]
       /\ user[r] # NoUser /\ pc[r] \notin {"idle", "done"}
            => user'[r] = user[r]]_vars
C24_Witness ==
  \E r \in Reqs :
    /\ pc[r] = "done" /\ res[r].status = 201
    /\ req[r].token.tenantId = "tB" /\ req[r].token.accountType = "SIMPLE"
    /\ user[r] = [userId |-> "u1", tenantId |-> "tA", accountType |-> "MANAGERIAL"]
    /\ users["u1"] = UserRow("tA", "MANAGERIAL", TRUE)

(***************************************************************************)
(* Properties of the ceilings under concurrent requests (SpecRace).        *)
(***************************************************************************)
\* C26: after any interleaving of POST /clients and POST /projects requests
\* a tenant of unchanged tier has no more clients, and no more projects,
\* than the finite ceiling of its tier.
C26_CeilingHoldsUnderConcurrency ==
  \A t \in DOMAIN tenants : \A rt \in {"clients", "projects"} :
    LET ceiling == CeilingIn(tenants[t].planType, rt) IN
    ceiling # -1 => counts[t][rt] <= ceiling

(***************************************************************************)
(* Properties of the users' ceiling (SpecRegister).                        *)
(***************************************************************************)
\* C27: after any sequence of operations, POST /register included, a tenant
\* of unchanged tier has no more user accounts than the maxUsers of its
\* tier, when that is finite.
C27_UsersWithinCeiling ==
  \A t \in DOMAIN tenants :
    LET ceiling == CeilingIn(tenants[t].planType, "users") IN
    ceiling # -1 => counts[t].users <= ceiling

(***************************************************************************)
(* Properties of the middleware chain (SpecOutcome).                       *)
(***************************************************************************)
\* where a request stands before each middleware, and where it stands once
\* the middleware has passed control on: authenticateToken, tenantMiddleware,
\* checkPlanAccess, and then checkPlanLimits, checkPlanFeature or
\* checkPermission
PassedOnTo ==
  [auth |-> "tenant", tenant |-> "handling", access |-> "entitled",
   entitled |-> "handler"]

\* every middleware in front of the handler of r's route has let r through
PassedAll(r) ==
  LET route == req[r].route IN
  /\ user[r] # NoUser
  /\ Includes(hooks, user[r].tenantId)
  /\ route.access # Undef =>
       /\ reqTenant[r] # NoReqTenant
       /\ seen[r].verdict = "next"
       /\ Includes(PLAN_MODULES[reqTenant[r].planType], route.access)
  /\ route.limits # Undef => seen[r].check \in {"limits", "feature"}
  /\ route.permission # NoTypes => Includes(route.permission, user[r].accountType)

\* C29: each middleware of the chain ends its run for a request in exactly
\* one way: it passes control on, with no response sent, or it ends the
\* request with one denial or error response; a response once sent is not
\* followed by another, and a handler runs only after every middleware in
\* front of it has passed control on.
C29_OneOutcomePerMiddleware ==
  [][\A r \in Reqs :
       /\ pc[r] \in DOMAIN PassedOnTo /\ pc'[r] # pc[r]
            => \/ pc'[r] = PassedOnTo[pc[r]] /\ res'[r] = NoResponse
               \/ pc'[r] = "done" /\ res'[r].status \in {401, 403, 404, 500}
       /\ pc[r] = "done"
            => \/ pc'[r] = "done" /\ res'[r] = res[r]
               \/ pc'[r] \in {"auth", "login", "register"} /\ res'[r] = NoResponse
       /\ pc'[r] = "handler" => PassedAll(r)']_vars
C29_Witness ==
  \E r \in Reqs :
    /\ pc[r] = "done" /\ res[r].status = 201
    /\ req[r].route.path = "/invoices"
    /\ PassedAll(r)

(***************************************************************************)
(* Properties of POST /login (SpecLogin).                                  *)
(***************************************************************************)
\* what holds of the stored account and tenant that the body of r names,
\* and of the password it gives
MayLogIn(r) ==
  LET row == users[req[r].body.userId] IN
  /\ row.present
  /\ row.isActive
  /\ tenants[row.tenantId].isActive
  /\ ~(tenants[row.tenantId].expiresAt # NullDate
         /\ tenants[row.tenantId].expiresAt < now)
  /\ req[r].body.passwordOk

\* C30: the handler of POST /login goes on to update lastLogin, write the
\* LOGIN audit entry and issue a token only if, when it runs its checks, the
\* user exists and is active, the user's tenant is active and its expiry has
\* not passed, and the password matches; in every other case it ends the
\* request with an error, with no token and no data mutation.
C30_LoginOnlyWhenAllHold ==
  [][\A r \in Reqs :
       /\ pc[r] = "login" /\ pc'[r] # "login"
            => IF req[r].body.valid /\ MayLogIn(r)
               THEN /\ pc'[r] = "audit" /\ res'[r] = NoResponse
                    /\ writes'[r] =
                         <<Mutation("User", "update",
                                    users[req[r].body.userId].tenantId)>>
               ELSE /\ pc'[r] = "done"
                    /\ res'[r].status \in {400, 401, 403}
                    /\ "tokenFor" \notin DOMAIN res'[r]
                    /\ writes'[r] = <<>> /\ audit'[r] = "none"
       /\ pc'[r] = "done" /\ pc[r] # "done" /\ "tokenFor" \in DOMAIN res'[r]
            => /\ pc[r] = "reply" /\ res'[r].tokenFor = req[r].body.userId
               /\ audit[r] \in {"written", "failed"}
               /\ writes[r][1] = Mutation("User", "update", writes[r][1].tenantId)]_vars
C30_Witness ==
  \E r, q \in Reqs :
    /\ pc[r] = "done" /\ res[r] = [status |-> 200, tokenFor |-> "u1"]
    /\ audit[r] = "written"
    /\ pc[q] = "done" /\ res[q] = errorHandler(403, "Assinatura expirada")
    /\ writes[q] = <<>>

(***************************************************************************)
(* Properties of the administrative routes (SpecAdmin).                    *)
(***************************************************************************)
\* C19: a step that creates or changes a Tenant record is a step of an
\* administrative route answered with success to a request that presented
\* the administrative key; such a step is no step of a request through
\* authenticateToken, tenantMiddleware, the plan checks, POST /login or a
\* tenant route.
C19_TenantsChangedOnlyByAdmin ==
  [][tenants' # tenants
       => /\ admin'.authorized /\ admin'.status \in {200, 201}
          /\ UNCHANGED <<pc, user, reqTenant, res, seen, hooks, lastQuery,
                         chainVars, counts, now>>]_vars
C19_Witness ==
  /\ admin.status \in {200, 201} /\ admin.authorized
  /\ "tB" \in DOMAIN tenants
  /\ ~tenants["tA"].isActive
  /\ \E r \in Reqs : pc[r] = "done" /\ res[r].status = 201 /\ Ran(r, "limits")

====
